---- MODULE Spec2Model ----
(***************************************************************************)
(* Signing-authorization gateway (copytrade-key).                          *)
(*                                                                         *)
(* Concurrent signing requests (order / allowance / transfer) run the     *)
(* use cases of signing/usecases.py against                                *)
(*   - the copytrading ledger   (copytrading/repositories.py),             *)
(*   - the in-memory guard      (core/security.py, SecurityManager),       *)
(*   - the external signer      (signing/services.py, PrivyClient),        *)
(*   - the audit store          (signing/repositories.py).                 *)
(* One request is one asyncio task; a task can be interleaved with the    *)
(* others at every await that reaches a store or the signer, so each such *)
(* await is one action.                                                    *)
(*                                                                         *)
(* Amounts: the code converts minor units to USDC with amount / 10**6 and *)
(* works on floats.  The model keeps every USDC quantity as an integer    *)
(* number of minor units (micro-USDC), i.e. value * 10**6; the volume      *)
(* limit is stated in minor units and the guard adds them exactly.  The   *)
(* commission band of validate_transfer_activity is computed in binary64  *)
(* arithmetic, operation by operation, as the code computes it.           *)
(***************************************************************************)
EXTENDS Integers, Sequences, FiniteSets, TLC

VARIABLES
    settings,            \* core/environment/config.py  Settings
    target_activities,   \* copytrading DB: target_activities   (read-only)
    monitoring_sessions, \* copytrading DB: monitoring_sessions (read-only)
    user_activities,     \* copytrading DB: user_activities (two flags updated)
    user_requests,       \* SecurityManager.user_requests   user -> timestamps
    daily_volumes,       \* SecurityManager.daily_volumes   user -> volume
    last_volume_reset,   \* SecurityManager.last_volume_reset
    blocked_users,       \* SecurityManager.blocked_users   user -> instant
    audit_log,           \* signature_audit_log table, id = position
    now,                 \* wall clock, seconds (datetime.now())
    pc,                  \* per request: position in the handler
    request,             \* per request: the parsed request object
    signature,           \* per request: local `signature`
    error,               \* per request: error text (error_msg / str(e))
    check_now,           \* per request: local `now` of check_daily_volume
    rejected_by,         \* per request: which gate of validate_request said False
    flag_at_commit,      \* per request: replay flag seen by the UPDATE (history)
    privy_calls,         \* per request: sign_typed_data invocations (signer side)
    result,              \* per request: the returned triple
    checked_at           \* request -> instant of its guard check (history,
                         \* recorded by the guard specification only)

vars == <<settings, target_activities, monitoring_sessions, user_activities,
          user_requests, daily_volumes, last_volume_reset, blocked_users,
          audit_log, now, pc, request, signature, error, check_now,
          rejected_by, flag_at_commit, privy_calls, result, checked_at>>

db_vars == <<target_activities, monitoring_sessions, user_activities>>
guard_vars == <<user_requests, daily_volumes, last_volume_reset, blocked_users>>
local_vars == <<request, signature, error, check_now, rejected_by,
                flag_at_commit, privy_calls, result, checked_at>>

----------------------------------------------------------------------------
(* Bounds *)

MaxRequests == 2     \* request slots (concurrent asyncio tasks)
MaxTime == 60        \* horizon of the wall clock, seconds

Requests == 1..MaxRequests

None == "None"

----------------------------------------------------------------------------
(* Program constants *)

RateWindowSeconds == 60      \* timedelta(minutes=1)
BlockSeconds == 3600         \* unblock after 1 hour
DaySeconds == 86400          \* timedelta.days / timedelta.seconds modulus
SupportedChainId == 137      \* Literal[137]

\* validate_transfer_activity: expected = usdc_amount * 0.01, tolerance 0.05,
\* written as exact integer ratios.
CommissionPercent == 1       \* 0.01  = 1 / 100
TolerancePercent == 5        \* 0.05  = 5 / 100

----------------------------------------------------------------------------
(* Python float arithmetic (IEEE-754 binary64, round to nearest, ties to   *)
(* even).  A float is [m, e] with value m * 2^e, m a natural number of at  *)
(* most MantissaBits + 1 bits.  Naturals beyond the machine integers are   *)
(* sequences of limbs, least significant first, none for zero.             *)

MantissaBits == 53
LimbBits == 10
LimbBase == 2^LimbBits
MinorUnits == 10^6           \* 10**6: minor units per USDC

RECURSIVE big_norm(_)
big_norm(a) ==
    IF a = <<>> THEN <<>>
    ELSE IF a[Len(a)] = 0 THEN big_norm(SubSeq(a, 1, Len(a) - 1))
    ELSE a

RECURSIVE big_from_int(_)
big_from_int(n) ==
    IF n = 0 THEN <<>>
    ELSE <<n % LimbBase>> \o big_from_int(n \div LimbBase)

RECURSIVE big_add_carry(_, _, _)
big_add_carry(a, b, c) ==
    IF a = <<>> /\ b = <<>> THEN big_from_int(c)
    ELSE LET x == IF a = <<>> THEN 0 ELSE Head(a)
             y == IF b = <<>> THEN 0 ELSE Head(b)
             sum == x + y + c
         IN <<sum % LimbBase>> \o
            big_add_carry(IF a = <<>> THEN <<>> ELSE Tail(a),
                          IF b = <<>> THEN <<>> ELSE Tail(b),
                          sum \div LimbBase)

big_add(a, b) == big_norm(big_add_carry(a, b, 0))

\* a - b for a >= b
RECURSIVE big_sub_borrow(_, _, _)
big_sub_borrow(a, b, c) ==
    IF a = <<>> THEN <<>>
    ELSE LET y == IF b = <<>> THEN 0 ELSE Head(b)
             diff == Head(a) - y - c
         IN <<diff % LimbBase>> \o
            big_sub_borrow(Tail(a), IF b = <<>> THEN <<>> ELSE Tail(b),
                           IF diff < 0 THEN 1 ELSE 0)

big_sub(a, b) == big_norm(big_sub_borrow(a, b, 0))

\* a * k + c for a machine integer k < LimbBase
RECURSIVE big_mul_small(_, _, _)
big_mul_small(a, k, c) ==
    IF a = <<>> THEN big_from_int(c)
    ELSE LET prod == Head(a) * k + c IN
         <<prod % LimbBase>> \o big_mul_small(Tail(a), k, prod \div LimbBase)

RECURSIVE big_mul_limbs(_, _)
big_mul_limbs(a, b) ==
    IF b = <<>> THEN <<>>
    ELSE big_add_carry(big_mul_small(a, Head(b), 0),
                       <<0>> \o big_mul_limbs(a, Tail(b)), 0)

big_mul(a, b) == big_norm(big_mul_limbs(a, b))

\* quotient and remainder of a by a machine integer d, d * LimbBase < 2^31
RECURSIVE big_divmod_small(_, _)
big_divmod_small(a, d) ==
    IF a = <<>> THEN [q |-> <<>>, r |-> 0]
    ELSE LET high == big_divmod_small(Tail(a), d)
             cur == high.r * LimbBase + Head(a)
         IN [q |-> <<cur \div d>> \o high.q, r |-> cur % d]

RECURSIVE zero_limbs(_)
zero_limbs(k) == IF k = 0 THEN <<>> ELSE <<0>> \o zero_limbs(k - 1)

\* a * 2^k
big_shift_left(a, k) ==
    IF a = <<>> THEN <<>>
    ELSE big_norm(zero_limbs(k \div LimbBits)
                  \o big_mul_small(a, 2^(k % LimbBits), 0))

\* floor(a / 2^k), and whether a bit was shifted out
big_shift_right(a, k) ==
    LET whole == k \div LimbBits
        dropped == SubSeq(a, 1, IF whole < Len(a) THEN whole ELSE Len(a))
        rest == SubSeq(a, whole + 1, Len(a))
        dm == big_divmod_small(rest, 2^(k % LimbBits))
    IN [q |-> big_norm(dm.q),
        inexact |-> dm.r # 0 \/ \E i \in 1..Len(dropped) : dropped[i] # 0]

RECURSIVE int_bit_length(_)
int_bit_length(n) == IF n = 0 THEN 0 ELSE 1 + int_bit_length(n \div 2)

big_bit_length(a) ==
    IF a = <<>> THEN 0
    ELSE (Len(a) - 1) * LimbBits + int_bit_length(a[Len(a)])

big_is_odd(a) == a # <<>> /\ Head(a) % 2 = 1

\* a < b, a = b, a > b as -1, 0, 1 (both normalised)
RECURSIVE big_cmp(_, _)
big_cmp(a, b) ==
    IF Len(a) # Len(b) THEN (IF Len(a) < Len(b) THEN -1 ELSE 1)
    ELSE IF a = <<>> THEN 0
    ELSE IF a[Len(a)] # b[Len(b)]
         THEN (IF a[Len(a)] < b[Len(b)] THEN -1 ELSE 1)
    ELSE big_cmp(SubSeq(a, 1, Len(a) - 1), SubSeq(b, 1, Len(b) - 1))

\* The float nearest to a * 2^e (plus a positive fraction of one unit of a
\* when `inexact`; then a has more than MantissaBits + 1 bits).  Ties go to
\* the even mantissa.
float_round(a, e, inexact) ==
    LET excess == big_bit_length(a) - MantissaBits IN
    IF excess <= 0 THEN [m |-> a, e |-> e]
    ELSE LET upper == big_shift_right(a, excess - 1)
             round_bit == big_is_odd(upper.q)
             sticky == upper.inexact \/ inexact
             kept == big_shift_right(upper.q, 1).q
             up == round_bit /\ (sticky \/ big_is_odd(kept))
         IN [m |-> IF up THEN big_add(kept, <<1>>) ELSE kept,
             e |-> e + excess]

\* p / q of two Python ints (true division, correctly rounded); q < 2^20
DivisionGuardBits == 80
float_div_int(p, q) ==
    LET dm == big_divmod_small(
                  big_shift_left(big_from_int(p), DivisionGuardBits), q)
    IN float_round(big_norm(dm.q), 0 - DivisionGuardBits, dm.r # 0)

float_mul(x, y) == float_round(big_mul(x.m, y.m), x.e + y.e, FALSE)

\* 1 + x and 1 - x for 0 < x < 1 (x.e < 0)
one_plus(x) ==
    float_round(big_add(big_shift_left(<<1>>, 0 - x.e), x.m), x.e, FALSE)

one_minus(x) ==
    float_round(big_sub(big_shift_left(<<1>>, 0 - x.e), x.m), x.e, FALSE)

\* x <= y for non-negative floats
float_le(x, y) ==
    LET low == IF x.e < y.e THEN x.e ELSE y.e IN
    big_cmp(big_shift_left(x.m, x.e - low),
            big_shift_left(y.m, y.e - low)) <= 0

----------------------------------------------------------------------------
(* Addresses.  Hex addresses are strings; str.lower() is modelled on the   *)
(* addresses that occur, the mixed-case spellings being the checksummed    *)
(* forms found in configuration and requests.                              *)

lower(s) ==
    CASE s = "0x4bFb" -> "0x4bfb"
      [] s = "0xC5d5" -> "0xc5d5"
      [] s = "0x3c49" -> "0x3c49"
      [] s = "0x2791" -> "0x2791"
      [] s = "0x4BFB" -> "0x4bfb"
      [] s = "0xC5D5" -> "0xc5d5"
      [] s = "0x3C49" -> "0x3c49"
      [] s = "0xTEAM" -> "0xteam"
      [] s = "0xTeam2" -> "0xteam2"
      [] s = "0xW1" -> "0xw1"
      [] s = "0xTARGET" -> "0xtarget"
      [] OTHER -> s

\* Settings defaults of config.py (addresses abbreviated to their prefix).
polymarket_ctf_exchange == "0x4bFb"
polymarket_neg_risk_ctf_exchange == "0xC5d5"
usdc_address == "0x3c49"
usdce_address == "0x2791"

\* Settings.get_team_wallets_list: the configured wallets, lower-cased.
get_team_wallets_list(conf) == {lower(a) : a \in conf.team_wallets}

----------------------------------------------------------------------------
(* Boundary validators (api/validators.py).  Each returns the normalised   *)
(* value, or ValueError where the code raises ValueError.                  *)

ValueError == "ValueError"

\* Variant of validate_contract that compares the address as it was sent.
validate_contract_case_sensitive(v) ==
    IF v \notin {polymarket_ctf_exchange, polymarket_neg_risk_ctf_exchange}
    THEN ValueError ELSE lower(v)

validate_contract(v) ==
    IF lower(v) \notin {lower(polymarket_ctf_exchange),
                        lower(polymarket_neg_risk_ctf_exchange)}
    THEN ValueError ELSE lower(v)

validate_token(v) ==
    IF lower(v) \notin {lower(usdc_address), lower(usdce_address)}
    THEN ValueError ELSE lower(v)

\* Variant of validate_spender that looks the spender up in the token list.
validate_spender_among_tokens(v) ==
    IF lower(v) \notin {lower(usdc_address), lower(usdce_address)}
    THEN ValueError ELSE lower(v)

validate_spender(v) ==
    IF lower(v) \notin {lower(polymarket_ctf_exchange),
                        lower(polymarket_neg_risk_ctf_exchange)}
    THEN ValueError ELSE lower(v)

\* Variant of validate_recipient that lets every recipient through while no
\* team wallet is configured.
validate_recipient_fail_open(conf, v) ==
    LET team_wallets == get_team_wallets_list(conf) IN
    IF team_wallets = {} THEN lower(v)
    ELSE IF lower(v) \notin team_wallets THEN ValueError
    ELSE lower(v)

validate_recipient(conf, v) ==
    LET team_wallets == get_team_wallets_list(conf) IN
    IF team_wallets = {} THEN ValueError
    ELSE IF lower(v) \notin team_wallets THEN ValueError
    ELSE lower(v)

\* Strings offered as wallet_address that do not start with 0x or do not
\* have 42 characters (the abbreviations stand for full-length addresses).
NotAnAddress == {"W1"}

validate_address(v) ==
    IF v \in NotAnAddress THEN ValueError ELSE lower(v)

\* pydantic model construction: every field validator must accept; the
\* accepted request carries the normalised values.  A request of kind
\* "ValueError" is the 422 answer: the use case is never called.
Unprocessable == [kind |-> ValueError]

parse_request(conf, raw) ==
    IF raw.chain_id # SupportedChainId THEN Unprocessable
    ELSE IF validate_address(raw.wallet_address) = ValueError
    THEN Unprocessable
    ELSE IF raw.kind = "order" THEN
        IF validate_contract(raw.verifying_contract) = ValueError
        THEN Unprocessable
        ELSE [raw EXCEPT !.verifying_contract = validate_contract(@),
                         !.wallet_address = validate_address(@)]
    ELSE IF raw.kind = "allowance" THEN
        IF validate_token(raw.token_address) = ValueError
           \/ validate_spender(raw.spender_address) = ValueError
        THEN Unprocessable
        ELSE [raw EXCEPT !.token_address = validate_token(@),
                         !.spender_address = validate_spender(@),
                         !.wallet_address = validate_address(@)]
    ELSE
        IF validate_token(raw.token_address) = ValueError
           \/ validate_recipient(conf, raw.recipient_address) = ValueError
        THEN Unprocessable
        ELSE [raw EXCEPT !.token_address = validate_token(@),
                         !.recipient_address = validate_recipient(conf, @),
                         !.wallet_address = validate_address(@)]

\* SignOrderRequest.get_usdc_amount / SignTransferRequest.get_usdc_amount
\* and request.amount / 10**6 of the allowance use case (minor units kept).
get_usdc_amount(req) ==
    IF req.kind = "order"
    THEN (IF req.side = 0 THEN req.maker_amount ELSE req.taker_amount)
    ELSE req.amount

----------------------------------------------------------------------------
(* Copytrading ledger (copytrading/repositories.py).  A table is a set of  *)
(* rows; a query result is the set of rows it selects, the empty set being *)
(* scalar_one_or_none() = None.  A NULL usdc_amount is NullAmount.         *)

NullAmount == -1

get_target_activity(tas, target_activity_id) ==
    {t \in tas : t.id = target_activity_id}

get_monitoring_session(mss, user_id, target_address) ==
    {m \in mss : /\ m.user_id = user_id
                 /\ m.target_address = lower(target_address)
                 /\ m.is_active = TRUE}

get_user_activity(uas, user_id, target_activity_id) ==
    {a \in uas : /\ a.user_id = user_id
                 /\ a.target_activity_id = target_activity_id}

\* Variant of mark_order_signed that writes the negation of the stored flag.
mark_order_signed_toggle(uas, user_id, target_activity_id) ==
    {IF a.user_id = user_id /\ a.target_activity_id = target_activity_id
     THEN [a EXCEPT !.is_order_signed = ~@] ELSE a : a \in uas}

\* UPDATE user_activities SET is_order_signed = true
\*  WHERE user_id = :u AND target_activity_id = :t        (no flag condition)
mark_order_signed(uas, user_id, target_activity_id) ==
    {IF a.user_id = user_id /\ a.target_activity_id = target_activity_id
     THEN [a EXCEPT !.is_order_signed = TRUE] ELSE a : a \in uas}

\* Variant of mark_commission_signed that also clears the trade notional.
mark_commission_signed_clears_amount(uas, user_id, target_activity_id) ==
    {IF a.user_id = user_id /\ a.target_activity_id = target_activity_id
     THEN [a EXCEPT !.is_commission_signed = TRUE, !.usdc_amount = NullAmount]
     ELSE a : a \in uas}

mark_commission_signed(uas, user_id, target_activity_id) ==
    {IF a.user_id = user_id /\ a.target_activity_id = target_activity_id
     THEN [a EXCEPT !.is_commission_signed = TRUE] ELSE a : a \in uas}

\* Variant of validate_order_activity that looks at the replay flag before
\* the wallet binding.
validate_order_activity_flag_first(tas, mss, uas, user_id, target_activity_id, wallet_address, token_id, side) ==
    LET target_activity == get_target_activity(tas, target_activity_id) IN
    IF target_activity = {} THEN "Target activity not found"
    ELSE LET ta == CHOOSE t \in target_activity : TRUE
             side_str == IF side = 0 THEN "BUY" ELSE "SELL"
             monitoring_session ==
                 get_monitoring_session(mss, user_id, ta.wallet_address)
         IN
         IF ta.token_id # token_id THEN "Token ID mismatch"
         ELSE IF ta.side # side_str THEN "Side mismatch"
         ELSE IF monitoring_session = {} THEN "No active monitoring session"
         ELSE LET ms == CHOOSE m \in monitoring_session : TRUE
                  user_activity ==
                      get_user_activity(uas, user_id, target_activity_id)
              IN
              IF /\ user_activity # {}
                 /\ (CHOOSE a \in user_activity : TRUE).is_order_signed
              THEN "Order already signed"
              ELSE IF /\ ms.internal_wallet_address \notin {None, ""}
                      /\ lower(ms.internal_wallet_address) # lower(wallet_address)
              THEN "Wallet address mismatch"
              ELSE ""

\* validate_order_activity: the verdict is the error message, "" = valid.
validate_order_activity(tas, mss, uas, user_id, target_activity_id, wallet_address, token_id, side) ==
    LET target_activity == get_target_activity(tas, target_activity_id) IN
    IF target_activity = {} THEN "Target activity not found"
    ELSE LET ta == CHOOSE t \in target_activity : TRUE
             side_str == IF side = 0 THEN "BUY" ELSE "SELL"
             monitoring_session ==
                 get_monitoring_session(mss, user_id, ta.wallet_address)
         IN
         IF ta.token_id # token_id THEN "Token ID mismatch"
         ELSE IF ta.side # side_str THEN "Side mismatch"
         ELSE IF monitoring_session = {} THEN "No active monitoring session"
         ELSE LET ms == CHOOSE m \in monitoring_session : TRUE
                  user_activity ==
                      get_user_activity(uas, user_id, target_activity_id)
              IN
              IF /\ ms.internal_wallet_address \notin {None, ""}
                 /\ lower(ms.internal_wallet_address) # lower(wallet_address)
              THEN "Wallet address mismatch"
              ELSE IF /\ user_activity # {}
                      /\ (CHOOSE a \in user_activity : TRUE).is_order_signed
              THEN "Order already signed"
              ELSE ""

\* The float literals 0.01 and 0.05 of validate_transfer_activity, and the
\* two factors (1 - tolerance) and (1 + tolerance).
commission_rate == float_div_int(CommissionPercent, 100)
tolerance == float_div_int(TolerancePercent, 100)
low_factor == one_minus(tolerance)
high_factor == one_plus(tolerance)

\* The band test of validate_transfer_activity, in float arithmetic:
\*   expected = usdc_amount * 0.01 ; actual = amount / 10**6
\*   (1 - tolerance) * expected <= actual <= (1 + tolerance) * expected
\* The stored notional is the float nearest to usdc_amount minor units.
commission_band_test(usdc_amount, amount) ==
    LET notional == float_div_int(usdc_amount, MinorUnits)
        expected_commission_usdc == float_mul(notional, commission_rate)
        actual_commission_usdc == float_div_int(amount, MinorUnits)
    IN /\ float_le(float_mul(low_factor, expected_commission_usdc),
                   actual_commission_usdc)
       /\ float_le(actual_commission_usdc,
                   float_mul(high_factor, expected_commission_usdc))

\* The band test, tabulated once for the notionals and amounts that the
\* ledgers and requests of the specifications contain.
LedgerNotionals == {2000, 18000, 70000}
TransferAmounts ==
    {18, 19, 20, 21, 22, 170, 171, 189, 190, 664, 665, 735, 736}
band_table ==
    [n \in LedgerNotionals, a \in TransferAmounts |->
        commission_band_test(n, a)]

commission_in_band(usdc_amount, amount) ==
    IF <<usdc_amount, amount>> \in DOMAIN band_table
    THEN band_table[usdc_amount, amount]
    ELSE commission_band_test(usdc_amount, amount)

\* Variant of validate_transfer_activity that asks for the signed order
\* before it looks at the commission flag.
validate_transfer_activity_order_first(uas, user_id, target_activity_id, wallet_address, token_address, amount) ==
    LET user_activity == get_user_activity(uas, user_id, target_activity_id) IN
    IF user_activity = {} THEN "User activity not found"
    ELSE LET ua == CHOOSE a \in user_activity : TRUE IN
         IF ~ua.is_order_signed
         THEN "Order must be signed before commission transfer"
         ELSE IF ua.is_commission_signed THEN "Commission already signed"
         ELSE IF ua.usdc_amount = NullAmount THEN "Trade amount not available"
         ELSE IF ~commission_in_band(ua.usdc_amount, amount)
         THEN "Commission amount does not match expected 1% of trade"
         ELSE ""

\* Variant of validate_transfer_activity without the order-signed check.
validate_transfer_activity_no_order_check(uas, user_id, target_activity_id, wallet_address, token_address, amount) ==
    LET user_activity == get_user_activity(uas, user_id, target_activity_id) IN
    IF user_activity = {} THEN "User activity not found"
    ELSE LET ua == CHOOSE a \in user_activity : TRUE IN
         IF ua.is_commission_signed THEN "Commission already signed"
         ELSE IF ua.usdc_amount = NullAmount THEN "Trade amount not available"
         ELSE IF ~commission_in_band(ua.usdc_amount, amount)
         THEN "Commission amount does not match expected 1% of trade"
         ELSE ""

\* Variant of validate_transfer_activity that applies the bound-wallet check
\* of the order validation to the transfer.
validate_transfer_activity_bound_wallet(uas, user_id, target_activity_id, wallet_address, token_address, amount) ==
    LET user_activity == get_user_activity(uas, user_id, target_activity_id) IN
    IF user_activity = {} THEN "User activity not found"
    ELSE LET ua == CHOOSE a \in user_activity : TRUE IN
         IF \E ms \in monitoring_sessions :
                /\ ms.user_id = user_id /\ ms.is_active
                /\ ms.internal_wallet_address \notin {None, ""}
                /\ lower(ms.internal_wallet_address) # lower(wallet_address)
         THEN "Wallet address mismatch"
         ELSE IF ua.is_commission_signed THEN "Commission already signed"
         ELSE IF ~ua.is_order_signed
         THEN "Order must be signed before commission transfer"
         ELSE IF ua.usdc_amount = NullAmount THEN "Trade amount not available"
         ELSE IF ~commission_in_band(ua.usdc_amount, amount)
         THEN "Commission amount does not match expected 1% of trade"
         ELSE ""

validate_transfer_activity(uas, user_id, target_activity_id, wallet_address, token_address, amount) ==
    LET user_activity == get_user_activity(uas, user_id, target_activity_id) IN
    IF user_activity = {} THEN "User activity not found"
    ELSE LET ua == CHOOSE a \in user_activity : TRUE IN
         IF ua.is_commission_signed THEN "Commission already signed"
         ELSE IF ~ua.is_order_signed
         THEN "Order must be signed before commission transfer"
         ELSE IF ua.usdc_amount = NullAmount THEN "Trade amount not available"
         ELSE IF ~commission_in_band(ua.usdc_amount, amount)
         THEN "Commission amount does not match expected 1% of trade"
         ELSE ""

----------------------------------------------------------------------------
(* Guard (core/security.py, SecurityManager).  Each check returns its      *)
(* verdict together with the state it leaves.                              *)

\* [ts for ts in self.user_requests[user_id] if ts > minute_ago]
RECURSIVE prune(_, _)
prune(stamps, minute_ago) ==
    IF stamps = <<>> THEN <<>>
    ELSE IF Head(stamps) > minute_ago
         THEN <<Head(stamps)>> \o prune(Tail(stamps), minute_ago)
         ELSE prune(Tail(stamps), minute_ago)

\* timedelta.seconds and timedelta.days of a non-negative difference
timedelta_seconds(d) == d % DaySeconds
timedelta_days(d) == d \div DaySeconds

\* Variant of check_blocked that renews an expired entry instead of deleting it.
check_blocked_renews_expired(blocked, user_id, t) ==
    IF user_id \notin DOMAIN blocked
    THEN [allowed |-> TRUE, blocked_users |-> blocked]
    ELSE IF timedelta_seconds(t - blocked[user_id]) > BlockSeconds
    THEN [allowed |-> TRUE,
          blocked_users |-> [blocked EXCEPT ![user_id] = t]]
    ELSE [allowed |-> FALSE, blocked_users |-> blocked]

check_blocked(blocked, user_id, t) ==
    IF user_id \notin DOMAIN blocked
    THEN [allowed |-> TRUE, blocked_users |-> blocked]
    ELSE IF timedelta_seconds(t - blocked[user_id]) > BlockSeconds
    THEN [allowed |-> TRUE,
          blocked_users |-> [u \in DOMAIN blocked \ {user_id} |-> blocked[u]]]
    ELSE [allowed |-> FALSE, blocked_users |-> blocked]

\* Variant of check_rate_limit that rejects only above the maximum.
check_rate_limit_above_max(conf, requests, user_id, t) ==
    IF conf.max_signatures_per_minute = 0
    THEN [allowed |-> TRUE, user_requests |-> requests]
    ELSE LET minute_ago == t - RateWindowSeconds
             kept == prune(requests[user_id], minute_ago)
             current_count == Len(kept)
         IN
         IF current_count > conf.max_signatures_per_minute
         THEN [allowed |-> FALSE,
               user_requests |-> [requests EXCEPT ![user_id] = kept]]
         ELSE [allowed |-> TRUE,
               user_requests |-> [requests EXCEPT ![user_id] = Append(kept, t)]]

\* Variant of check_rate_limit for which a maximum of 0 is a limit of 0.
check_rate_limit_zero_is_limit(conf, requests, user_id, t) ==
    LET minute_ago == t - RateWindowSeconds
        kept == prune(requests[user_id], minute_ago)
        current_count == Len(kept)
    IN
    IF current_count >= conf.max_signatures_per_minute
    THEN [allowed |-> FALSE,
          user_requests |-> [requests EXCEPT ![user_id] = kept]]
    ELSE [allowed |-> TRUE,
          user_requests |-> [requests EXCEPT ![user_id] = Append(kept, t)]]

\* Variant of check_rate_limit that also counts the request it rejects.
check_rate_limit_counts_rejected(conf, requests, user_id, t) ==
    IF conf.max_signatures_per_minute = 0
    THEN [allowed |-> TRUE, user_requests |-> requests]
    ELSE LET minute_ago == t - RateWindowSeconds
             kept == prune(requests[user_id], minute_ago)
             current_count == Len(kept)
         IN
         IF current_count >= conf.max_signatures_per_minute
         THEN [allowed |-> FALSE,
               user_requests |-> [requests EXCEPT ![user_id] = Append(kept, t)]]
         ELSE [allowed |-> TRUE,
               user_requests |-> [requests EXCEPT ![user_id] = Append(kept, t)]]

check_rate_limit(conf, requests, user_id, t) ==
    IF conf.max_signatures_per_minute = 0
    THEN [allowed |-> TRUE, user_requests |-> requests]
    ELSE LET minute_ago == t - RateWindowSeconds
             kept == prune(requests[user_id], minute_ago)
             current_count == Len(kept)
         IN
         IF current_count >= conf.max_signatures_per_minute
         THEN [allowed |-> FALSE,
               user_requests |-> [requests EXCEPT ![user_id] = kept]]
         ELSE [allowed |-> TRUE,
               user_requests |-> [requests EXCEPT ![user_id] = Append(kept, t)]]

\* Variant of check_daily_volume that accepts without storing the new total.
check_daily_volume_not_stored(conf, volumes, last_reset, user_id, amount_usdc, t) ==
    IF conf.max_daily_volume_usdc = 0
    THEN [allowed |-> TRUE, daily_volumes |-> volumes,
          last_volume_reset |-> last_reset]
    ELSE LET reset == timedelta_days(t - last_reset) >= 1
             vols == IF reset THEN [u \in DOMAIN volumes |-> 0] ELSE volumes
             last == IF reset THEN t ELSE last_reset
             current_volume == vols[user_id]
             new_volume == current_volume + amount_usdc
         IN
         IF new_volume > conf.max_daily_volume_usdc
         THEN [allowed |-> FALSE, daily_volumes |-> vols,
               last_volume_reset |-> last]
         ELSE [allowed |-> TRUE, daily_volumes |-> vols,
               last_volume_reset |-> last]

\* check_daily_volume up to its verdict; on a rejection the block-list write
\* follows the awaited alert (see BlockAfterAlert).
check_daily_volume(conf, volumes, last_reset, user_id, amount_usdc, t) ==
    IF conf.max_daily_volume_usdc = 0
    THEN [allowed |-> TRUE, daily_volumes |-> volumes,
          last_volume_reset |-> last_reset]
    ELSE LET reset == timedelta_days(t - last_reset) >= 1
             vols == IF reset THEN [u \in DOMAIN volumes |-> 0] ELSE volumes
             last == IF reset THEN t ELSE last_reset
             current_volume == vols[user_id]
             new_volume == current_volume + amount_usdc
         IN
         IF new_volume > conf.max_daily_volume_usdc
         THEN [allowed |-> FALSE, daily_volumes |-> vols,
               last_volume_reset |-> last]
         ELSE [allowed |-> TRUE,
               daily_volumes |-> [vols EXCEPT ![user_id] = new_volume],
               last_volume_reset |-> last]

\* Answers of the Telegram API to the POST of send_alert.
AlertAnswers ==
    {[kind |-> "response", status |-> 200],
     [kind |-> "response", status |-> 400],
     [kind |-> "ClientError", status |-> 0],
     [kind |-> "TimeoutError", status |-> 0]}

\* Variant of send_alert without the try/except around the POST.
send_alert_unguarded(conf, answer) ==
    IF conf.telegram_bot_token = "" \/ conf.telegram_chat_id = ""
    THEN [raised |-> FALSE, sent |-> FALSE, value |-> ""]
    ELSE IF answer.kind # "response"
    THEN [raised |-> TRUE, sent |-> FALSE, value |-> answer.kind]
    ELSE [raised |-> FALSE, sent |-> answer.status = 200, value |-> ""]

\* send_alert: returns at once when Telegram is not configured; otherwise
\* one POST, any exception of which is caught and logged.
send_alert(conf, answer) ==
    IF conf.telegram_bot_token = "" \/ conf.telegram_chat_id = ""
    THEN [raised |-> FALSE, sent |-> FALSE, value |-> ""]
    ELSE IF answer.kind # "response"
    THEN [raised |-> FALSE, sent |-> FALSE, value |-> ""]
    ELSE [raised |-> FALSE, sent |-> answer.status = 200, value |-> ""]

----------------------------------------------------------------------------
(* External signer (signing/services.py, PrivyClient.sign_typed_data).     *)
(* The answer of the remote service is the input; the client turns it      *)
(* into a returned signature or a raised exception.                        *)

SignerAnswers ==
    {[kind |-> "response", status |-> 200, signature |-> "0xSIG1"],
     [kind |-> "response", status |-> 200, signature |-> "0xSIG2"],
     [kind |-> "response", status |-> 200, signature |-> ""],
     [kind |-> "response", status |-> 500, signature |-> ""],
     [kind |-> "ClientError", status |-> 0, signature |-> ""],
     [kind |-> "TimeoutError", status |-> 0, signature |-> ""]}

\* Variant of sign_typed_data without the `if not signature` check.
sign_typed_data_unchecked(answer) ==
    IF answer.kind = "ClientError"
    THEN [raised |-> TRUE, value |-> "Failed to connect to Privy API"]
    ELSE IF answer.kind = "TimeoutError"
    THEN [raised |-> TRUE, value |-> ""]
    ELSE IF answer.status # 200
    THEN [raised |-> TRUE, value |-> "Privy API error"]
    ELSE [raised |-> FALSE, value |-> answer.signature]

sign_typed_data(answer) ==
    IF answer.kind = "ClientError"
    THEN [raised |-> TRUE, value |-> "Failed to connect to Privy API"]
    ELSE IF answer.kind = "TimeoutError"
    THEN [raised |-> TRUE, value |-> ""]      \* str(asyncio.TimeoutError())
    ELSE IF answer.status # 200
    THEN [raised |-> TRUE, value |-> "Privy API error"]
    ELSE IF answer.signature = ""
    THEN [raised |-> TRUE, value |-> "Privy API did not return signature"]
    ELSE [raised |-> FALSE, value |-> answer.signature]

----------------------------------------------------------------------------
(* Audit store (signing/repositories.py).  The table is the sequence of    *)
(* inserted rows; the primary key of a row is its position.                *)

NullId == 0

\* Variant of create_audit_log that drops the rows of failed attempts.
create_audit_log_success_only(log, row) ==
    IF row.success THEN Append(log, row) ELSE log

\* Variant of create_audit_log that keeps one row: a later write replaces it.
create_audit_log_overwrites(log, row) ==
    IF log = <<>> THEN <<row>> ELSE [log EXCEPT ![Len(log)] = row]

create_audit_log(log, row) == Append(log, row)

AuditRow(req, sig, ok, err, order_signed, commission_signed, rate_lim, volume_lim, validation) ==
    [signature_type |-> req.kind,
     user_id |-> req.user_id,
     wallet_address |-> req.wallet_address,
     target_activity_id |->
         IF req.kind = "allowance" THEN NullId ELSE req.target_activity_id,
     signature |-> sig,
     success |-> ok,
     error |-> err,
     is_order_signed |-> order_signed,
     is_commission_signed |-> commission_signed,
     rate_limited |-> rate_lim,
     volume_limited |-> volume_lim,
     validation_failed |-> validation,
     token_id |-> IF req.kind = "order" THEN req.token_id ELSE None,
     token_address |-> IF req.kind = "order" THEN None ELSE req.token_address,
     amount_usdc |-> get_usdc_amount(req)]

----------------------------------------------------------------------------
(* Requests offered to the three endpoints, as sent (before parsing).      *)

Users == {42, 43}

OrderBase ==
    [kind |-> "order", user_id |-> 42, wallet_address |-> "0xW1",
     token_id |-> "T1", side |-> 0, maker_amount |-> 40, taker_amount |-> 80,
     target_activity_id |-> 7, verifying_contract |-> "0x4bFb",
     chain_id |-> 137]

TransferBase ==
    [kind |-> "transfer", user_id |-> 42, wallet_address |-> "0xw1",
     token_address |-> "0x3c49", recipient_address |-> "0xTEAM",
     amount |-> 20, target_activity_id |-> 7, chain_id |-> 137]

AllowanceBase ==
    [kind |-> "allowance", user_id |-> 42, wallet_address |-> "0xw1",
     token_address |-> "0x2791", spender_address |-> "0xC5d5",
     amount |-> 50, chain_id |-> 137]

RawRequests ==
    {OrderBase,
     [OrderBase EXCEPT !.maker_amount = 100],
     [OrderBase EXCEPT !.verifying_contract = "0xdead"],
     TransferBase,
     [TransferBase EXCEPT !.recipient_address = "0xdead"],
     AllowanceBase}

NoRequest == [kind |-> "none"]
NoResult == [success |-> FALSE, value |-> None, audit_id |-> NullId]

----------------------------------------------------------------------------
(* Initial state: the service has just been constructed (empty guard, no   *)
(* audit row written by this run); the ledger is whatever the copytrading  *)
(* service has stored.                                                     *)

\* platform_commission_percentage is in percent (1.0 = 1%); the float
\* commission_tolerance is kept in tenths (0.1 = 1 tenth).
SettingsChoices ==
    {[max_signatures_per_minute |-> 0, max_daily_volume_usdc |-> 0,
      team_wallets |-> {"0xteam"},
      platform_commission_percentage |-> 1, commission_tolerance |-> 1,
      telegram_bot_token |-> "", telegram_chat_id |-> ""],
     [max_signatures_per_minute |-> 1, max_daily_volume_usdc |-> 90,
      team_wallets |-> {"0xteam"},
      platform_commission_percentage |-> 1, commission_tolerance |-> 1,
      telegram_bot_token |-> "", telegram_chat_id |-> ""]}

UserActivity(order_signed, commission_signed) ==
    [user_id |-> 42, target_activity_id |-> 7, usdc_amount |-> 2000,
     is_order_signed |-> order_signed,
     is_commission_signed |-> commission_signed]

UserActivityChoices ==
    {{}, {UserActivity(FALSE, FALSE)}, {UserActivity(TRUE, FALSE)}}

Init ==
    /\ settings \in SettingsChoices
    /\ target_activities =
           {[id |-> 7, wallet_address |-> "0xtarget", token_id |-> "T1",
             side |-> "BUY"]}
    /\ monitoring_sessions =
           {[user_id |-> 42, target_address |-> "0xtarget",
             internal_wallet_address |-> "0xW1", is_active |-> TRUE]}
    /\ user_activities \in UserActivityChoices
    /\ user_requests = [u \in Users |-> <<>>]
    /\ daily_volumes = [u \in Users |-> 0]
    /\ last_volume_reset = 0
    /\ blocked_users = [u \in {} |-> 0]
    /\ audit_log = <<>>
    /\ now = 0
    /\ pc = [r \in Requests |-> "idle"]
    /\ request = [r \in Requests |-> NoRequest]
    /\ signature = [r \in Requests |-> None]
    /\ error = [r \in Requests |-> None]
    /\ check_now = [r \in Requests |-> 0]
    /\ rejected_by = [r \in Requests |-> None]
    /\ flag_at_commit = [r \in Requests |-> None]
    /\ privy_calls = [r \in Requests |-> 0]
    /\ result = [r \in Requests |-> NoResult]
    /\ checked_at = [r \in {} |-> 0]

----------------------------------------------------------------------------
(* Actions: one per step of a request between two awaits.                  *)

IsLedgerRequest(req) == req.kind \in {"order", "transfer"}

\* FastAPI parses the body into the request model (validators.py); a
\* ValueError of a validator answers 422 and execute() is never entered.
ReceiveFrom(r, raws) ==
    /\ pc[r] = "idle"
    /\ \A q \in Requests : q < r => pc[q] # "idle"   \* slots are taken in order
    /\ \E raw \in raws :
         LET req == parse_request(settings, raw) IN
         IF req.kind = ValueError
         THEN /\ request' = [request EXCEPT ![r] = raw]
              /\ pc' = [pc EXCEPT ![r] = "rejected"]
         ELSE /\ request' = [request EXCEPT ![r] = req]
              /\ pc' = [pc EXCEPT ![r] =
                          IF IsLedgerRequest(req) THEN "validate" ELSE "guard"]
    /\ UNCHANGED <<settings, db_vars, guard_vars, audit_log, now, signature,
                   error, check_now, rejected_by, flag_at_commit, privy_calls,
                   result,
                   checked_at>>

Receive(r) == ReceiveFrom(r, RawRequests)

\* Variant of the validation step that sets the replay flag as soon as the
\* verdict is pass.
ValidateActivity_marks_on_pass(r) ==
    /\ pc[r] = "validate"
    /\ LET req == request[r]
           msg == IF req.kind = "order"
                  THEN validate_order_activity(
                           target_activities, monitoring_sessions,
                           user_activities, req.user_id,
                           req.target_activity_id, req.wallet_address,
                           req.token_id, req.side)
                  ELSE validate_transfer_activity(
                           user_activities, req.user_id,
                           req.target_activity_id, req.wallet_address,
                           req.token_address, req.amount)
       IN
       \/ /\ msg # ""
          /\ error' = [error EXCEPT ![r] = msg]
          /\ pc' = [pc EXCEPT ![r] = "log_invalid"]
          /\ user_activities' = user_activities
       \/ /\ msg = ""
          /\ error' = error
          /\ pc' = [pc EXCEPT ![r] = "guard"]
          /\ user_activities' =
                 IF req.kind = "order"
                 THEN mark_order_signed(user_activities, req.user_id,
                                        req.target_activity_id)
                 ELSE mark_commission_signed(user_activities, req.user_id,
                                             req.target_activity_id)
       \/ /\ error' = [error EXCEPT ![r] = "ledger store error"]
          /\ pc' = [pc EXCEPT ![r] = "except"]
          /\ user_activities' = user_activities
    /\ UNCHANGED <<settings, target_activities, monitoring_sessions,
                   guard_vars, audit_log, now, request,
                   signature, check_now, rejected_by, flag_at_commit,
                   privy_calls, result,
                   checked_at>>

\* Variant of the validation step that records the failure but goes on to
\* the guard all the same.
ValidateActivity_no_short_circuit(r) ==
    /\ pc[r] = "validate"
    /\ LET req == request[r]
           msg == IF req.kind = "order"
                  THEN validate_order_activity(
                           target_activities, monitoring_sessions,
                           user_activities, req.user_id,
                           req.target_activity_id, req.wallet_address,
                           req.token_id, req.side)
                  ELSE validate_transfer_activity(
                           user_activities, req.user_id,
                           req.target_activity_id, req.wallet_address,
                           req.token_address, req.amount)
       IN
       \/ /\ msg # ""
          /\ error' = [error EXCEPT ![r] = msg]
          /\ pc' = [pc EXCEPT ![r] = "guard"]
       \/ /\ msg = ""
          /\ error' = error
          /\ pc' = [pc EXCEPT ![r] = "guard"]
       \/ /\ error' = [error EXCEPT ![r] = "ledger store error"]
          /\ pc' = [pc EXCEPT ![r] = "except"]
    /\ UNCHANGED <<settings, db_vars, guard_vars, audit_log, now, request,
                   signature, check_now, rejected_by, flag_at_commit,
                   privy_calls, result,
                   checked_at>>

\* usecases.py step 1: validate_order_activity / validate_transfer_activity.
\* The queries may raise (infrastructure fault), which the use case catches.
ValidateActivity(r) ==
    /\ pc[r] = "validate"
    /\ LET req == request[r]
           msg == IF req.kind = "order"
                  THEN validate_order_activity(
                           target_activities, monitoring_sessions,
                           user_activities, req.user_id,
                           req.target_activity_id, req.wallet_address,
                           req.token_id, req.side)
                  ELSE validate_transfer_activity(
                           user_activities, req.user_id,
                           req.target_activity_id, req.wallet_address,
                           req.token_address, req.amount)
       IN
       \/ /\ msg # ""
          /\ error' = [error EXCEPT ![r] = msg]
          /\ pc' = [pc EXCEPT ![r] = "log_invalid"]
       \/ /\ msg = ""
          /\ error' = error
          /\ pc' = [pc EXCEPT ![r] = "guard"]
       \/ /\ error' = [error EXCEPT ![r] = "ledger store error"]
          /\ pc' = [pc EXCEPT ![r] = "except"]
    /\ UNCHANGED <<settings, db_vars, guard_vars, audit_log, now, request,
                   signature, check_now, rejected_by, flag_at_commit,
                   privy_calls, result,
                   checked_at>>

\* The insert of create_audit_log followed by the return of the triple.
\* The insert itself is taken to succeed: persistence of audit rows is a
\* storage mechanic outside the modelled core.
WriteAudit(r, row, ok, value) ==
    /\ audit_log' = create_audit_log(audit_log, row)
    /\ result' = [result EXCEPT ![r] =
                     [success |-> ok, value |-> value,
                      audit_id |-> Len(audit_log')]]
    /\ pc' = [pc EXCEPT ![r] = "done"]

\* Variant of the validation-failure branch that puts the user on the block
\* list.
LogValidationFailure_blocks_user(r) ==
    /\ pc[r] = "log_invalid"
    /\ WriteAudit(r, AuditRow(request[r], None, FALSE, error[r],
                              FALSE, FALSE, FALSE, FALSE, TRUE),
                  FALSE, error[r])
    /\ LET u == request[r].user_id IN
       blocked_users' = [v \in DOMAIN blocked_users \cup {u} |->
                            IF v = u THEN now ELSE blocked_users[v]]
    /\ UNCHANGED <<settings, db_vars, user_requests, daily_volumes,
                   last_volume_reset, now, request, signature, error,
                   check_now, rejected_by, flag_at_commit, privy_calls,
                   checked_at>>

\* usecases.py: `if not is_valid:` branch.
LogValidationFailure(r) ==
    /\ pc[r] = "log_invalid"
    /\ WriteAudit(r, AuditRow(request[r], None, FALSE, error[r],
                              FALSE, FALSE, FALSE, FALSE, TRUE),
                  FALSE, error[r])
    /\ UNCHANGED <<settings, db_vars, guard_vars, now, request, signature, error,
                   check_now, rejected_by, flag_at_commit, privy_calls,
                   checked_at>>

\* Variant of the guard call in which a request that the volume gate
\* rejects is not counted in the rate window.
GuardCheck_volume_rejection_uncounted(r) ==
    /\ pc[r] = "guard"
    /\ LET req == request[r]
           b == IF IsLedgerRequest(req)
                THEN check_blocked(blocked_users, req.user_id, now)
                ELSE [allowed |-> TRUE, blocked_users |-> blocked_users]
           rl == check_rate_limit(settings, user_requests, req.user_id, now)
           dv == IF IsLedgerRequest(req)
                 THEN check_daily_volume(settings, daily_volumes,
                                         last_volume_reset, req.user_id,
                                         get_usdc_amount(req), now)
                 ELSE [allowed |-> TRUE, daily_volumes |-> daily_volumes,
                       last_volume_reset |-> last_volume_reset]
       IN
       IF ~b.allowed
       THEN /\ rejected_by' = [rejected_by EXCEPT ![r] = "blocked"]
            /\ pc' = [pc EXCEPT ![r] = "log_guard"]
            /\ UNCHANGED <<guard_vars, check_now, error>>
       ELSE IF ~rl.allowed
       THEN /\ blocked_users' = b.blocked_users
            /\ user_requests' = rl.user_requests
            /\ \E answer \in AlertAnswers :
                 LET alert == send_alert(settings, answer) IN
                 IF alert.raised
                 THEN /\ error' = [error EXCEPT ![r] = alert.value]
                      /\ pc' = [pc EXCEPT ![r] = "except"]
                      /\ rejected_by' = rejected_by
                 ELSE /\ rejected_by' = [rejected_by EXCEPT ![r] = "rate"]
                      /\ pc' = [pc EXCEPT ![r] = "log_guard"]
                      /\ error' = error
            /\ UNCHANGED <<daily_volumes, last_volume_reset, check_now>>
       ELSE /\ blocked_users' = b.blocked_users
            /\ user_requests' = IF dv.allowed THEN rl.user_requests
                               ELSE user_requests
            /\ daily_volumes' = dv.daily_volumes
            /\ last_volume_reset' = dv.last_volume_reset
            /\ error' = error
            /\ IF ~dv.allowed
               THEN /\ rejected_by' = [rejected_by EXCEPT ![r] = "volume"]
                    /\ check_now' = [check_now EXCEPT ![r] = now]
                    /\ pc' = [pc EXCEPT ![r] = "alert_volume"]
               ELSE /\ pc' = [pc EXCEPT ![r] = "sign"]
                    /\ UNCHANGED <<rejected_by, check_now>>
    /\ UNCHANGED <<settings, db_vars, audit_log, now, request, signature,
                   flag_at_commit, privy_calls, result>>

\* usecases.py step 2: security_manager.validate_request (order, transfer)
\* or security_manager.check_rate_limit (allowance).  The checks do not
\* suspend up to their verdict, so they are one step.
GuardCheck(r) ==
    /\ pc[r] = "guard"
    /\ LET req == request[r]
           b == IF IsLedgerRequest(req)
                THEN check_blocked(blocked_users, req.user_id, now)
                ELSE [allowed |-> TRUE, blocked_users |-> blocked_users]
           rl == check_rate_limit(settings, user_requests, req.user_id, now)
           dv == IF IsLedgerRequest(req)
                 THEN check_daily_volume(settings, daily_volumes,
                                         last_volume_reset, req.user_id,
                                         get_usdc_amount(req), now)
                 ELSE [allowed |-> TRUE, daily_volumes |-> daily_volumes,
                       last_volume_reset |-> last_volume_reset]
       IN
       IF ~b.allowed
       THEN /\ rejected_by' = [rejected_by EXCEPT ![r] = "blocked"]
            /\ pc' = [pc EXCEPT ![r] = "log_guard"]
            /\ UNCHANGED <<guard_vars, check_now, error>>
       ELSE IF ~rl.allowed
       THEN /\ blocked_users' = b.blocked_users
            /\ user_requests' = rl.user_requests
            /\ \E answer \in AlertAnswers :
                 LET alert == send_alert(settings, answer) IN
                 IF alert.raised
                 THEN /\ error' = [error EXCEPT ![r] = alert.value]
                      /\ pc' = [pc EXCEPT ![r] = "except"]
                      /\ rejected_by' = rejected_by
                 ELSE /\ rejected_by' = [rejected_by EXCEPT ![r] = "rate"]
                      /\ pc' = [pc EXCEPT ![r] = "log_guard"]
                      /\ error' = error
            /\ UNCHANGED <<daily_volumes, last_volume_reset, check_now>>
       ELSE /\ blocked_users' = b.blocked_users
            /\ user_requests' = rl.user_requests
            /\ daily_volumes' = dv.daily_volumes
            /\ last_volume_reset' = dv.last_volume_reset
            /\ error' = error
            /\ IF ~dv.allowed
               THEN /\ rejected_by' = [rejected_by EXCEPT ![r] = "volume"]
                    /\ check_now' = [check_now EXCEPT ![r] = now]
                    /\ pc' = [pc EXCEPT ![r] = "alert_volume"]
               ELSE /\ pc' = [pc EXCEPT ![r] = "sign"]
                    /\ UNCHANGED <<rejected_by, check_now>>
    /\ UNCHANGED <<settings, db_vars, audit_log, now, request, signature,
                   flag_at_commit, privy_calls, result>>

\* Variant of the block-list write that blocks at the instant of the write.
BlockAfterAlert_at_write(r) ==
    /\ pc[r] = "alert_volume"
    /\ LET u == request[r].user_id IN
       blocked_users' = [v \in DOMAIN blocked_users \cup {u} |->
                            IF v = u THEN now ELSE blocked_users[v]]
    /\ pc' = [pc EXCEPT ![r] = "log_guard"]
    /\ UNCHANGED <<settings, db_vars, user_requests, daily_volumes,
                   last_volume_reset, audit_log, now, local_vars>>

\* The guard call of a request; the history of check instants is untouched.
Guard(r) == GuardCheck(r) /\ UNCHANGED checked_at

\* check_daily_volume after `await self.send_alert(...)`:
\* self.blocked_users[user_id] = now, with the `now` taken before the alert.
BlockAfterAlert(r) ==
    /\ pc[r] = "alert_volume"
    /\ \E answer \in AlertAnswers :
         LET alert == send_alert(settings, answer)
             u == request[r].user_id
         IN
         IF alert.raised
         THEN /\ error' = [error EXCEPT ![r] = alert.value]
              /\ pc' = [pc EXCEPT ![r] = "except"]
              /\ blocked_users' = blocked_users
         ELSE /\ blocked_users' =
                     [v \in DOMAIN blocked_users \cup {u} |->
                         IF v = u THEN check_now[r] ELSE blocked_users[v]]
              /\ pc' = [pc EXCEPT ![r] = "log_guard"]
              /\ error' = error
    /\ UNCHANGED <<settings, db_vars, user_requests, daily_volumes,
                   last_volume_reset, audit_log, now, request, signature,
                   check_now, rejected_by, flag_at_commit, privy_calls,
                   result, checked_at>>

\* usecases.py: `if not await self.security_manager...` branch.
LogGuardRejection(r) ==
    /\ pc[r] = "log_guard"
    /\ LET req == request[r]
           text == IF IsLedgerRequest(req)
                   THEN "Rate limit or volume limit exceeded"
                   ELSE "Rate limit exceeded"
           err == IF IsLedgerRequest(req)
                  THEN "Security validation failed (rate limit or volume limit)"
                  ELSE "Rate limit exceeded"
       IN
       WriteAudit(r, AuditRow(req, None, FALSE, err, FALSE, FALSE,
                              TRUE, IsLedgerRequest(req), FALSE),
                  FALSE, text)
    /\ UNCHANGED <<settings, db_vars, guard_vars, now, request, signature, error,
                   check_now, rejected_by, flag_at_commit, privy_calls,
                   checked_at>>

\* Variant of the signer step that calls the signer a second time when the
\* first call fails.
Sign_retry_once(r) ==
    /\ pc[r] = "sign"
    /\ \E answer \in SignerAnswers :
         LET out == sign_typed_data(answer) IN
         IF out.raised
         THEN /\ error' = [error EXCEPT ![r] = out.value]
              /\ pc' = [pc EXCEPT ![r] =
                          IF privy_calls[r] = 0 THEN "sign" ELSE "except"]
              /\ signature' = signature
         ELSE /\ signature' = [signature EXCEPT ![r] = out.value]
              /\ pc' = [pc EXCEPT ![r] =
                          IF IsLedgerRequest(request[r])
                          THEN "mark" ELSE "log_success"]
              /\ error' = error
    /\ privy_calls' = [privy_calls EXCEPT ![r] = @ + 1]
    /\ UNCHANGED <<settings, db_vars, guard_vars, audit_log, now, request,
                   check_now, rejected_by, flag_at_commit, result,
                   checked_at>>

\* usecases.py steps 3-4: build the typed data, privy_client.sign_typed_data.
Sign(r) ==
    /\ pc[r] = "sign"
    /\ \E answer \in SignerAnswers :
         LET out == sign_typed_data(answer) IN
         IF out.raised
         THEN /\ error' = [error EXCEPT ![r] = out.value]
              /\ pc' = [pc EXCEPT ![r] = "except"]
              /\ signature' = signature
         ELSE /\ signature' = [signature EXCEPT ![r] = out.value]
              /\ pc' = [pc EXCEPT ![r] =
                          IF IsLedgerRequest(request[r])
                          THEN "mark" ELSE "log_success"]
              /\ error' = error
    /\ privy_calls' = [privy_calls EXCEPT ![r] = @ + 1]
    /\ UNCHANGED <<settings, db_vars, guard_vars, audit_log, now, request,
                   check_now, rejected_by, flag_at_commit, result,
                   checked_at>>

\* The replay flag of the row the UPDATE is aimed at, before the UPDATE.
FlagBefore(req) ==
    LET rows == get_user_activity(user_activities, req.user_id,
                                  req.target_activity_id) IN
    IF rows = {} THEN "no row"
    ELSE LET a == CHOOSE x \in rows : TRUE IN
         IF req.kind = "order"
         THEN (IF a.is_order_signed THEN "true" ELSE "false")
         ELSE (IF a.is_commission_signed THEN "true" ELSE "false")

\* Variant of the commit step whose store error escapes the handler: the
\* request is left with its signature, without audit row or return.
MarkSigned_uncaught(r) ==
    /\ pc[r] = "mark"
    /\ LET req == request[r] IN
       \/ /\ user_activities' =
                 IF req.kind = "order"
                 THEN mark_order_signed(user_activities, req.user_id,
                                        req.target_activity_id)
                 ELSE mark_commission_signed(user_activities, req.user_id,
                                             req.target_activity_id)
          /\ flag_at_commit' = [flag_at_commit EXCEPT ![r] = FlagBefore(req)]
          /\ pc' = [pc EXCEPT ![r] = "log_success"]
          /\ error' = error
       \/ /\ error' = [error EXCEPT ![r] = "ledger store error"]
          /\ pc' = [pc EXCEPT ![r] = "abandoned"]
          /\ UNCHANGED <<user_activities, flag_at_commit>>
    /\ UNCHANGED <<settings, target_activities, monitoring_sessions,
                   guard_vars, audit_log, now, request, signature, check_now,
                   rejected_by, privy_calls, result,
                   checked_at>>

\* usecases.py step 5: mark_order_signed / mark_commission_signed; the
\* returned bool (rowcount > 0) is discarded by the caller.
MarkSigned(r) ==
    /\ pc[r] = "mark"
    /\ LET req == request[r] IN
       \/ /\ user_activities' =
                 IF req.kind = "order"
                 THEN mark_order_signed(user_activities, req.user_id,
                                        req.target_activity_id)
                 ELSE mark_commission_signed(user_activities, req.user_id,
                                             req.target_activity_id)
          /\ flag_at_commit' = [flag_at_commit EXCEPT ![r] = FlagBefore(req)]
          /\ pc' = [pc EXCEPT ![r] = "log_success"]
          /\ error' = error
       \/ /\ error' = [error EXCEPT ![r] = "ledger store error"]
          /\ pc' = [pc EXCEPT ![r] = "except"]
          /\ UNCHANGED <<user_activities, flag_at_commit>>
    /\ UNCHANGED <<settings, target_activities, monitoring_sessions,
                   guard_vars, audit_log, now, request, signature, check_now,
                   rejected_by, privy_calls, result,
                   checked_at>>

\* usecases.py step 6: audit row of the success, return (True, signature, id).
LogSuccess(r) ==
    /\ pc[r] = "log_success"
    /\ LET req == request[r] IN
       WriteAudit(r, AuditRow(req, signature[r], TRUE, None,
                              req.kind = "order", req.kind = "transfer",
                              FALSE, FALSE, FALSE),
                  TRUE, signature[r])
    /\ UNCHANGED <<settings, db_vars, guard_vars, now, request, signature, error,
                   check_now, rejected_by, flag_at_commit, privy_calls,
                   checked_at>>

\* Variant of the handler that stores the error text in the signature column
\* of the audit row.
HandleException_error_as_signature(r) ==
    /\ pc[r] = "except"
    /\ WriteAudit(r, AuditRow(request[r], error[r], FALSE, error[r], FALSE,
                              FALSE, FALSE, FALSE, FALSE),
                  FALSE, error[r])
    /\ UNCHANGED <<settings, db_vars, guard_vars, now, request, signature,
                   error, check_now, rejected_by, flag_at_commit, privy_calls,
                   checked_at>>

\* usecases.py `except Exception as e:` handler.
HandleException(r) ==
    /\ pc[r] = "except"
    /\ WriteAudit(r, AuditRow(request[r], None, FALSE, error[r], FALSE,
                              FALSE, FALSE, FALSE, FALSE),
                  FALSE, error[r])
    /\ UNCHANGED <<settings, db_vars, guard_vars, now, request, signature,
                   error, check_now, rejected_by, flag_at_commit, privy_calls,
                   checked_at>>

\* The wall clock advances, by the length of one rate window.
Tick ==
    /\ now + RateWindowSeconds <= MaxTime
    /\ now' = now + RateWindowSeconds
    /\ UNCHANGED <<settings, db_vars, guard_vars, audit_log, pc, local_vars>>

Next ==
    \/ \E r \in Requests : Receive(r)
    \/ \E r \in Requests : ValidateActivity(r)
    \/ \E r \in Requests : LogValidationFailure(r)
    \/ \E r \in Requests : Guard(r)
    \/ \E r \in Requests : BlockAfterAlert(r)
    \/ \E r \in Requests : LogGuardRejection(r)
    \/ \E r \in Requests : Sign(r)
    \/ \E r \in Requests : MarkSigned(r)
    \/ \E r \in Requests : LogSuccess(r)
    \/ \E r \in Requests : HandleException(r)
    \/ Tick

Spec == Init /\ [][Next]_vars

----------------------------------------------------------------------------
(* Progress specification.  Each accepted request is an asyncio task; the  *)
(* event loop resumes every task whose awaited call has completed, the     *)
(* signer call completes (answer, error, or the 10 s timeout of            *)
(* sign_typed_data), and the stores answer.  So the next step of every     *)
(* request is taken eventually: weak fairness on the steps of each task.   *)
(* Arrivals are not forced.                                                *)

LiveRawRequests ==
    {OrderBase, [OrderBase EXCEPT !.maker_amount = 100], TransferBase}

InitLive ==
    /\ Init
    /\ settings.max_signatures_per_minute = 1
    /\ user_activities = {UserActivity(FALSE, FALSE)}

ReceiveLive(r) == ReceiveFrom(r, LiveRawRequests)

\* The next step of the task of request r.
TaskStep(r) ==
    \/ ValidateActivity(r)
    \/ LogValidationFailure(r)
    \/ Guard(r)
    \/ BlockAfterAlert(r)
    \/ LogGuardRejection(r)
    \/ Sign(r)
    \/ MarkSigned(r)
    \/ LogSuccess(r)
    \/ HandleException(r)

NextLive ==
    \/ \E r \in Requests : ReceiveLive(r)
    \/ \E r \in Requests : ValidateActivity(r)
    \/ \E r \in Requests : LogValidationFailure(r)
    \/ \E r \in Requests : Guard(r)
    \/ \E r \in Requests : BlockAfterAlert(r)
    \/ \E r \in Requests : LogGuardRejection(r)
    \/ \E r \in Requests : Sign(r)
    \/ \E r \in Requests : MarkSigned(r)
    \/ \E r \in Requests : LogSuccess(r)
    \/ \E r \in Requests : HandleException(r)

SpecLive ==
    /\ InitLive
    /\ [][NextLive]_vars
    /\ \A r \in Requests : WF_vars(TaskStep(r))

----------------------------------------------------------------------------
(* Guard specification.  The SecurityManager is one object per process     *)
(* (core/security.py: security_manager, APP scope); the requests that have *)
(* passed activity validation call it concurrently.  Here every request    *)
(* is about to call the guard, and the wall clock runs over two calendar   *)
(* days.  The instant of each guard check is recorded in checked_at.       *)

\* Instants of the wall clock, in seconds from the midnight before the
\* process was started:
\*   82800  23:00:00  (construction)    86401  00:00:01  (+1h 1s)
\*   82830  23:00:30  (+30s)            88200  00:30:00  (+1h 30min)
\*   82860  23:01:00  (+60s)           169200  23:00:00  (+24h)
\*   86400  00:00:00  (+1h)            171000  23:30:00  (+24h 30min)
ClockInstants == {82800, 82830, 82860, 86400, 86401, 88200, 169200, 171000}

ConstructedAt == CHOOSE t \in ClockInstants : \A u \in ClockInstants : t <= u

\* Calendar day of an instant.
calendar_day(t) == t \div DaySeconds

GuardSettingsChoices ==
    {[max_signatures_per_minute |-> 1, max_daily_volume_usdc |-> 90,
      team_wallets |-> {"0xteam"},
      platform_commission_percentage |-> 1, commission_tolerance |-> 1,
      telegram_bot_token |-> "", telegram_chat_id |-> ""],
     [max_signatures_per_minute |-> 2, max_daily_volume_usdc |-> 60,
      team_wallets |-> {"0xteam"},
      platform_commission_percentage |-> 1, commission_tolerance |-> 1,
      telegram_bot_token |-> "", telegram_chat_id |-> ""]}

GuardRawRequests ==
    {OrderBase,
     [OrderBase EXCEPT !.maker_amount = 100],
     [OrderBase EXCEPT !.user_id = 43],
     TransferBase,
     AllowanceBase}

InitGuard ==
    /\ settings \in GuardSettingsChoices
    /\ target_activities =
           {[id |-> 7, wallet_address |-> "0xtarget", token_id |-> "T1",
             side |-> "BUY"]}
    /\ monitoring_sessions =
           {[user_id |-> u, target_address |-> "0xtarget",
             internal_wallet_address |-> "0xW1", is_active |-> TRUE] :
               u \in Users}
    /\ user_activities = {UserActivity(TRUE, FALSE)}
    /\ user_requests = [u \in Users |-> <<>>]
    /\ daily_volumes = [u \in Users |-> 0]
    /\ last_volume_reset = ConstructedAt
    /\ blocked_users = [u \in {} |-> 0]
    /\ audit_log = <<>>
    /\ now = ConstructedAt
    /\ pc = [r \in Requests |-> "guard"]
    /\ request \in [Requests ->
                       {parse_request(settings, raw) : raw \in GuardRawRequests}]
    /\ signature = [r \in Requests |-> None]
    /\ error = [r \in Requests |-> None]
    /\ check_now = [r \in Requests |-> 0]
    /\ rejected_by = [r \in Requests |-> None]
    /\ flag_at_commit = [r \in Requests |-> None]
    /\ privy_calls = [r \in Requests |-> 0]
    /\ result = [r \in Requests |-> NoResult]
    /\ checked_at = [r \in {} |-> 0]

\* History: the instant at which request r runs its guard check.
RecordCheck(r) ==
    checked_at' = [q \in DOMAIN checked_at \cup {r} |->
                      IF q = r THEN now ELSE checked_at[q]]

\* The guard call of a request, its instant recorded.
GuardRecorded(r) == GuardCheck(r) /\ RecordCheck(r)

\* The wall clock moves on to a later instant.
TickGuard ==
    /\ \E t \in ClockInstants : t > now /\ now' = t
    /\ UNCHANGED <<settings, db_vars, guard_vars, audit_log, pc, local_vars>>

NextGuard ==
    \/ \E r \in Requests : GuardRecorded(r)
    \/ \E r \in Requests : BlockAfterAlert(r)
    \/ TickGuard

SpecGuard == InitGuard /\ [][NextGuard]_vars

----------------------------------------------------------------------------
(* Guard stream specification.  The same SecurityManager, called by a      *)
(* stream of requests: when the guard has answered a request, the task     *)
(* slot takes the next request that has passed its activity validation.    *)
(* The guard lives as long as the process, so any number of calls reach    *)
(* it; the limits may also both be 0 (the defaults of config.py).          *)

StreamSettingsChoices ==
    SettingsChoices
    \cup {[c EXCEPT !.telegram_bot_token = "123:ABC",
                    !.telegram_chat_id = "-100"] :
              c \in {d \in SettingsChoices : d.max_signatures_per_minute > 0}}

\* Requests of one user: an order within the daily maximum, an order above
\* it, and an allowance.
StreamRawRequests ==
    {OrderBase, [OrderBase EXCEPT !.maker_amount = 100], AllowanceBase}

\* Instants of the stream: construction, one hour later, and one second
\* after that.
StreamInstants == {t \in ClockInstants : t <= ConstructedAt + BlockSeconds + 1
                                         /\ t - ConstructedAt \notin 1..BlockSeconds - 1}

InitStream ==
    /\ settings \in StreamSettingsChoices
    /\ target_activities =
           {[id |-> 7, wallet_address |-> "0xtarget", token_id |-> "T1",
             side |-> "BUY"]}
    /\ monitoring_sessions =
           {[user_id |-> u, target_address |-> "0xtarget",
             internal_wallet_address |-> "0xW1", is_active |-> TRUE] :
               u \in Users}
    /\ user_activities = {UserActivity(TRUE, FALSE)}
    /\ user_requests = [u \in Users |-> <<>>]
    /\ daily_volumes = [u \in Users |-> 0]
    /\ last_volume_reset = ConstructedAt
    /\ blocked_users = [u \in {} |-> 0]
    /\ audit_log = <<>>
    /\ now = ConstructedAt
    /\ pc = [r \in Requests |-> "guard"]
    /\ request \in [Requests ->
                       {parse_request(settings, raw) : raw \in StreamRawRequests}]
    /\ signature = [r \in Requests |-> None]
    /\ error = [r \in Requests |-> None]
    /\ check_now = [r \in Requests |-> 0]
    /\ rejected_by = [r \in Requests |-> None]
    /\ flag_at_commit = [r \in Requests |-> None]
    /\ privy_calls = [r \in Requests |-> 0]
    /\ result = [r \in Requests |-> NoResult]
    /\ checked_at = [r \in {} |-> 0]

\* The guard has answered the request of slot r; the slot takes the next
\* request, which is about to call the guard.
NextCall(r) ==
    /\ pc[r] \in {"sign", "log_guard"}
    /\ \E raw \in StreamRawRequests :
           request' = [request EXCEPT ![r] = parse_request(settings, raw)]
    /\ pc' = [pc EXCEPT ![r] = "guard"]
    /\ rejected_by' = [rejected_by EXCEPT ![r] = None]
    /\ check_now' = [check_now EXCEPT ![r] = 0]
    /\ UNCHANGED <<settings, db_vars, guard_vars, audit_log, now, signature,
                   error, flag_at_commit, privy_calls, result, checked_at>>

\* The wall clock moves on to a later instant of the stream.
TickStream ==
    /\ \E t \in StreamInstants : t > now /\ now' = t
    /\ UNCHANGED <<settings, db_vars, guard_vars, audit_log, pc, local_vars>>

NextStream ==
    \/ \E r \in Requests : Guard(r)
    \/ \E r \in Requests : BlockAfterAlert(r)
    \/ \E r \in Requests : NextCall(r)
    \/ TickStream

SpecStream == InitStream /\ [][NextStream]_vars

----------------------------------------------------------------------------
(* Validation specification.  One request is about to run its activity     *)
(* validation (validate_order_activity or validate_transfer_activity)      *)
(* against a ledger drawn from a range of contents.  Addresses of          *)
(* monitoring sessions are stored in lower case, which is the form the     *)
(* query of get_monitoring_session compares with.                          *)

TargetActivityChoices ==
    {{}} \cup
    {{[id |-> 7, wallet_address |-> w, token_id |-> tk, side |-> sd]} :
        w \in {"0xtarget", "0xTARGET"}, tk \in {"T1"},
        sd \in {"BUY", "SELL"}}

MonitoringSessionChoices ==
    {{}} \cup
    {{[user_id |-> u, target_address |-> ta, internal_wallet_address |-> iw,
       is_active |-> act]} :
        u \in Users, ta \in {"0xtarget", "0xother"},
        iw \in {None, "0xW1", "0xW2"}, act \in BOOLEAN}

LedgerActivityChoices ==
    {{}} \cup
    {{[user_id |-> 42, target_activity_id |-> 7, usdc_amount |-> n,
       is_order_signed |-> o, is_commission_signed |-> c]} :
        n \in {NullAmount} \cup LedgerNotionals, o \in BOOLEAN,
        c \in BOOLEAN}

\* The transfer amounts lie around the two ends of the band of each
\* notional: 2000 -> 19 .. 21, 18000 -> 171 .. 189, 70000 -> 665 .. 735.

ValidationRawRequests ==
    {[OrderBase EXCEPT !.side = sd, !.token_id = tk,
                       !.target_activity_id = id, !.wallet_address = w] :
        sd \in {0, 1}, tk \in {"T1", "T2"}, id \in {7, 8},
        w \in {"0xW1", "0xW2"}}
    \cup {[TransferBase EXCEPT !.amount = a] : a \in TransferAmounts}
    \cup {[TransferBase EXCEPT !.target_activity_id = 8]}

\* Configurations of the commission: the defaults of config.py, and a
\* deployment that sets a commission of 2%.
ValidationSettingsChoices ==
    {[c EXCEPT !.platform_commission_percentage = p] :
        c \in {d \in SettingsChoices : d.max_signatures_per_minute = 0},
        p \in {1, 2}}

InitValidate ==
    /\ settings \in ValidationSettingsChoices
    /\ target_activities \in TargetActivityChoices
    /\ monitoring_sessions \in MonitoringSessionChoices
    /\ user_activities \in LedgerActivityChoices
    /\ user_requests = [u \in Users |-> <<>>]
    /\ daily_volumes = [u \in Users |-> 0]
    /\ last_volume_reset = 0
    /\ blocked_users = [u \in {} |-> 0]
    /\ audit_log = <<>>
    /\ now = 0
    /\ pc = [r \in Requests |-> IF r = 1 THEN "validate" ELSE "idle"]
    /\ \E raw \in ValidationRawRequests :
           request = [r \in Requests |->
                         IF r = 1 THEN parse_request(settings, raw)
                         ELSE NoRequest]
    /\ signature = [r \in Requests |-> None]
    /\ error = [r \in Requests |-> None]
    /\ check_now = [r \in Requests |-> 0]
    /\ rejected_by = [r \in Requests |-> None]
    /\ flag_at_commit = [r \in Requests |-> None]
    /\ privy_calls = [r \in Requests |-> 0]
    /\ result = [r \in Requests |-> NoResult]
    /\ checked_at = [r \in {} |-> 0]

NextValidate == \E r \in Requests : ValidateActivity(r)

SpecValidate == InitValidate /\ [][NextValidate]_vars

----------------------------------------------------------------------------
(* Transfer pair specification.  Every task slot holds a transfer request  *)
(* about to be validated against the same ledger; the requests differ in   *)
(* wallet address, token address and amount, and the ledger may hold no    *)
(* target activity and no monitoring session, or a session bound to one    *)
(* of the wallets.                                                         *)

PairRawRequests ==
    {[TransferBase EXCEPT !.wallet_address = w, !.token_address = t,
                          !.amount = a] :
        w \in {"0xW1", "0xW2"}, t \in {"0x3c49", "0x2791"}, a \in {20, 22}}

PairTargetActivityChoices ==
    {ts \in TargetActivityChoices :
        \A t \in ts : t.wallet_address = "0xtarget" /\ t.side = "BUY"}

PairMonitoringSessionChoices ==
    {ss \in MonitoringSessionChoices :
        \A m \in ss : /\ m.user_id = TransferBase.user_id
                       /\ m.target_address = "0xtarget"
                       /\ m.is_active}

PairLedgerActivityChoices ==
    {ls \in LedgerActivityChoices :
        \A a \in ls : a.usdc_amount \in {NullAmount, 2000}}

InitTransferPair ==
    /\ settings \in {c \in SettingsChoices : c.max_signatures_per_minute = 0}
    /\ target_activities \in PairTargetActivityChoices
    /\ monitoring_sessions \in PairMonitoringSessionChoices
    /\ user_activities \in PairLedgerActivityChoices
    /\ user_requests = [u \in Users |-> <<>>]
    /\ daily_volumes = [u \in Users |-> 0]
    /\ last_volume_reset = 0
    /\ blocked_users = [u \in {} |-> 0]
    /\ audit_log = <<>>
    /\ now = 0
    /\ pc = [r \in Requests |-> "validate"]
    /\ request \in [Requests ->
                       {parse_request(settings, raw) : raw \in PairRawRequests}]
    /\ signature = [r \in Requests |-> None]
    /\ error = [r \in Requests |-> None]
    /\ check_now = [r \in Requests |-> 0]
    /\ rejected_by = [r \in Requests |-> None]
    /\ flag_at_commit = [r \in Requests |-> None]
    /\ privy_calls = [r \in Requests |-> 0]
    /\ result = [r \in Requests |-> NoResult]
    /\ checked_at = [r \in {} |-> 0]

SpecTransferPair == InitTransferPair /\ [][NextValidate]_vars

----------------------------------------------------------------------------
(* Whitelist specification.  Requests of the three kinds arrive with       *)
(* addresses in several spellings, listed and unlisted, under several      *)
(* team-wallet configurations; each is parsed by its request model         *)
(* (api/validators.py) and either refused or handed to its use case.       *)

\* TEAM_WALLETS as configured: unset, one wallet, two wallets in mixed case.
WhitelistSettingsChoices ==
    {[c EXCEPT !.team_wallets = tw] :
        c \in {d \in SettingsChoices : d.max_signatures_per_minute = 0},
        tw \in {{}, {"0xteam"}, {"0xTEAM", "0xTeam2"}}}

WhitelistRawRequests ==
    {[OrderBase EXCEPT !.verifying_contract = c, !.chain_id = ch] :
        c \in {"0x4bFb", "0x4bfb", "0x4BFB", "0xC5d5", "0x3c49", "0xdead"},
        ch \in {137, 1}}
    \cup {[OrderBase EXCEPT !.wallet_address = "W1"]}
    \cup {[AllowanceBase EXCEPT !.token_address = t, !.spender_address = sp] :
        t \in {"0x3c49", "0x3C49", "0x2791", "0x4bFb", "0xdead"},
        sp \in {"0x4bFb", "0xC5D5", "0x3c49", "0xdead"}}
    \cup {[AllowanceBase EXCEPT !.chain_id = 1],
          [AllowanceBase EXCEPT !.wallet_address = "W1"]}
    \cup {[TransferBase EXCEPT !.token_address = t, !.recipient_address = rc] :
        t \in {"0x3c49", "0x2791", "0xdead"},
        rc \in {"0xteam", "0xTEAM", "0xteam2", "0x4bFb", "0xdead"}}
    \cup {[TransferBase EXCEPT !.chain_id = 1],
          [TransferBase EXCEPT !.wallet_address = "W1"]}

InitWhitelist ==
    /\ settings \in WhitelistSettingsChoices
    /\ target_activities = {}
    /\ monitoring_sessions = {}
    /\ user_activities = {}
    /\ user_requests = [u \in Users |-> <<>>]
    /\ daily_volumes = [u \in Users |-> 0]
    /\ last_volume_reset = 0
    /\ blocked_users = [u \in {} |-> 0]
    /\ audit_log = <<>>
    /\ now = 0
    /\ pc = [r \in Requests |-> "idle"]
    /\ request = [r \in Requests |-> NoRequest]
    /\ signature = [r \in Requests |-> None]
    /\ error = [r \in Requests |-> None]
    /\ check_now = [r \in Requests |-> 0]
    /\ rejected_by = [r \in Requests |-> None]
    /\ flag_at_commit = [r \in Requests |-> None]
    /\ privy_calls = [r \in Requests |-> 0]
    /\ result = [r \in Requests |-> NoResult]
    /\ checked_at = [r \in {} |-> 0]

ReceiveOffered(r) == ReceiveFrom(r, WhitelistRawRequests)

NextWhitelist == \E r \in Requests : ReceiveOffered(r)

SpecWhitelist == InitWhitelist /\ [][NextWhitelist]_vars

----------------------------------------------------------------------------
(* Properties.                                                             *)

Returned(r) == pc[r] = "done"
Succeeded(r) == pc[r] = "done" /\ result[r].success
Failed(r) == pc[r] = "done" /\ ~result[r].success

\* r1 and r2 are distinct requests of the given kind for one
\* (user, target activity) pair.
SamePair(kind, r1, r2) ==
    /\ r1 # r2
    /\ request[r1].kind = kind
    /\ request[r2].kind = kind
    /\ request[r1].user_id = request[r2].user_id
    /\ request[r1].target_activity_id = request[r2].target_activity_id

HasRow(req) ==
    get_user_activity(user_activities, req.user_id,
                      req.target_activity_id) # {}

\* The audit row a returned request points at belongs to that attempt.
OwnAuditRow(r) ==
    /\ result[r].audit_id \in 1..Len(audit_log)
    /\ LET row == audit_log[result[r].audit_id] IN
       /\ row.signature_type = request[r].kind
       /\ row.user_id = request[r].user_id
       /\ row.success = result[r].success

\* C1: for every (user, target activity) pair whose user-activity row is in
\* the ledger, at most one order-signing request ever returns success,
\* whatever the interleaving of the requests.
C1_AtMostOneOrderSuccess ==
    \A r1, r2 \in Requests :
        (SamePair("order", r1, r2) /\ HasRow(request[r1]))
            => ~(Succeeded(r1) /\ Succeeded(r2))

\* C2: a request whose commit step (mark_order_signed or
\* mark_commission_signed) found the replay flag already true is returned as
\* a failure, never as a success.
C2_LostRaceIsFailure ==
    \A r \in Requests :
        (Returned(r) /\ flag_at_commit[r] = "true") => ~result[r].success

\* C3: once an order request has returned success, the same request
\* validated again afterwards is refused with the already-signed reason, and
\* a request refused by activity validation has never reached the signer.
C3_RepeatIsAlreadySigned ==
    /\ [][\A r1, r2 \in Requests :
            ( /\ SamePair("order", r1, r2)
              /\ request[r1] = request[r2]
              /\ Succeeded(r1)
              /\ pc[r2] = "validate"
              /\ pc'[r2] \notin {"validate", "except"} )
            => ( /\ pc'[r2] = "log_invalid"
                 /\ error'[r2] = "Order already signed" )]_vars
    /\ [](\A r \in Requests : pc[r] = "log_invalid" => privy_calls[r] = 0)

\* C4: when an order request returns success, order_signed of its
\* (user, target activity) is true and the audit row of the attempt records
\* success with exactly the signature the signer returned.
C4_SuccessSetsFlagAndAudits ==
    \A r \in Requests :
        (Succeeded(r) /\ request[r].kind = "order")
            => /\ \E a \in get_user_activity(user_activities,
                                             request[r].user_id,
                                             request[r].target_activity_id) :
                      a.is_order_signed
               /\ OwnAuditRow(r)
               /\ audit_log[result[r].audit_id].success
               /\ audit_log[result[r].audit_id].signature = signature[r]

\* C5: for every (user, target activity) pair at most one commission
\* transfer request ever returns success, whatever the interleaving.
C5_AtMostOneTransferSuccess ==
    \A r1, r2 \in Requests :
        SamePair("transfer", r1, r2) => ~(Succeeded(r1) /\ Succeeded(r2))

\* C6: a replay flag (order_signed, commission_signed) that is true stays
\* true in every step; no step removes the row or resets either flag.
C6_FlagsNeverReset ==
    [][\A a \in user_activities :
          \E b \in user_activities' :
              /\ b.user_id = a.user_id
              /\ b.target_activity_id = a.target_activity_id
              /\ (a.is_order_signed => b.is_order_signed)
              /\ (a.is_commission_signed => b.is_commission_signed)]_vars

\* A commit step has run on a flag that was already true, and returned.
C6_Witness ==
    \E r \in Requests : Returned(r) /\ flag_at_commit[r] = "true"

\* C7: every execute call that has returned has appended exactly one audit
\* row: the table holds one row per returned call, each returned call points
\* at a row of its own attempt, and no two calls point at the same row.
C7_OneAuditRowPerReturn ==
    /\ Len(audit_log) = Cardinality({r \in Requests : Returned(r)})
    /\ \A r \in Requests : Returned(r) => OwnAuditRow(r)
    /\ \A r1, r2 \in Requests :
           (r1 # r2 /\ Returned(r1) /\ Returned(r2))
               => result[r1].audit_id # result[r2].audit_id

\* One call returned success, another returned after a guard rejection, and
\* both rows are in the table.
C7_Witness ==
    \E r1, r2 \in Requests :
        /\ Succeeded(r1)
        /\ Failed(r2)
        /\ rejected_by[r2] # None
        /\ Len(audit_log) = 2

\* C8: the flags of the audit row of a rejected attempt name the gate that
\* rejected it: rate gate -> rate_limited only, volume gate -> volume_limited
\* only, activity validation -> validation_failed only.
C8_FlagsMatchGate ==
    \A r \in Requests :
        (Failed(r) /\ OwnAuditRow(r)) =>
            LET row == audit_log[result[r].audit_id] IN
            /\ rejected_by[r] = "rate"
                  => (row.rate_limited /\ ~row.volume_limited
                      /\ ~row.validation_failed)
            /\ rejected_by[r] = "volume"
                  => (row.volume_limited /\ ~row.rate_limited
                      /\ ~row.validation_failed)
            /\ row.validation_failed
                  => (~row.rate_limited /\ ~row.volume_limited)

\* C9: a request refused by the whitelist check has an audit row naming the
\* rejection by the time control is back with the caller.
C9_WhitelistRejectionAudited ==
    \A r \in Requests :
        pc[r] = "rejected" =>
            \E i \in 1..Len(audit_log) :
                /\ audit_log[i].signature_type = request[r].kind
                /\ audit_log[i].user_id = request[r].user_id
                /\ ~audit_log[i].success

\* C10: every returned triple carries the id of the audit row of its own
\* attempt; with success the second component is the non-empty signature the
\* signer returned (and the row stores it); without success the second
\* component is the error text and no signature is returned or stored.
C10_ReturnedTriple ==
    \A r \in Requests :
        Returned(r) =>
            /\ OwnAuditRow(r)
            /\ result[r].success =>
                  /\ result[r].value = signature[r]
                  /\ result[r].value \notin {"", None}
                  /\ privy_calls[r] = 1
                  /\ audit_log[result[r].audit_id].signature = result[r].value
            /\ ~result[r].success =>
                  /\ \A answer \in SignerAnswers :
                        answer.signature # "" =>
                            result[r].value # answer.signature
                  /\ audit_log[result[r].audit_id].signature = None

\* One call returned a signature, another returned a failure after the
\* signer had been called.
C10_Witness ==
    \E r1, r2 \in Requests :
        /\ Succeeded(r1)
        /\ Failed(r2)
        /\ privy_calls[r2] = 1

\* The signer was called for r and raised: no signature reached the task.
SignerFailed(r) == privy_calls[r] = 1 /\ signature[r] = None

\* C11: when the signer call of an order or transfer request fails
\* (transport error, non-200 answer, timeout, empty signature), the request
\* returns failure with the audit row of its attempt recording success=false
\* and no signature, the request never runs its commit step, and the steps
\* from the failed call to the return leave the replay flags untouched and
\* write exactly one audit row.
C11_SignerFailureLeavesFlags ==
    /\ [](\A r \in Requests :
            (IsLedgerRequest(request[r]) /\ SignerFailed(r)) =>
                /\ pc[r] \in {"except", "done"}
                /\ flag_at_commit[r] = None
                /\ Returned(r) =>
                      /\ ~result[r].success
                      /\ OwnAuditRow(r)
                      /\ ~audit_log[result[r].audit_id].success
                      /\ audit_log[result[r].audit_id].signature = None)
    /\ [][\A r \in Requests :
            ( /\ IsLedgerRequest(request[r])
              /\ pc[r] \in {"sign", "except"}
              /\ pc'[r] # pc[r]
              /\ privy_calls'[r] = 1 /\ signature'[r] = None )
            => ( /\ user_activities' = user_activities
                 /\ Len(audit_log') =
                        Len(audit_log) + (IF pc'[r] = "done" THEN 1 ELSE 0) )]_vars

\* A transfer or order request whose ledger row exists has returned after a
\* failed signer call.
C11_Witness ==
    \E r \in Requests :
        /\ IsLedgerRequest(request[r])
        /\ HasRow(request[r])
        /\ SignerFailed(r)
        /\ Returned(r)

\* Positions of a request whose failure has been decided.
FailurePositions == {"log_invalid", "alert_volume", "log_guard", "except"}

\* C25: nothing is retried: a request calls the signer at most once; once
\* its validation has failed, the guard has rejected it or the signer has
\* failed, it only moves on to its failure return, without a signer call
\* and without a commit; and a returned request does nothing more.
C25_NoRetry ==
    /\ [](\A r \in Requests : privy_calls[r] <= 1)
    /\ [][\A r \in Requests :
            /\ pc[r] \in FailurePositions
                   => /\ pc'[r] \in FailurePositions \cup {"done"}
                      /\ privy_calls'[r] = privy_calls[r]
                      /\ flag_at_commit'[r] = flag_at_commit[r]
                      /\ signature'[r] = signature[r]
                      /\ pc'[r] = "done" => ~result'[r].success
            /\ pc[r] \in {"done", "rejected"}
                   => /\ pc'[r] = pc[r]
                      /\ privy_calls'[r] = privy_calls[r]
                      /\ result'[r] = result[r]]_vars

\* One request has returned after its only signer call failed, and another
\* has returned after its validation failed or the guard rejected it,
\* without a signer call.
C25_Witness ==
    \E r1, r2 \in Requests :
        /\ Failed(r1) /\ SignerFailed(r1)
        /\ Failed(r2) /\ privy_calls[r2] = 0
        /\ (rejected_by[r2] # None \/ error[r2] # None)

\* Request r has been handed to its use case and has not returned.
InFlight(r) == pc[r] \notin {"idle", "rejected", "done"}

\* C26: every request handed to its use case eventually returns with its
\* outcome recorded in the audit table, success or failure; in particular
\* a request that holds a signature goes on to its commit step and to an
\* audit row.
C26_EventuallyTerminal ==
    \A r \in Requests :
        InFlight(r) ~> (Returned(r) /\ OwnAuditRow(r))

\* A request that had obtained a signature has returned failure, with its
\* audit row, after its commit step failed.
C26_Witness ==
    \E r \in Requests :
        /\ Failed(r)
        /\ OwnAuditRow(r)
        /\ signature[r] # None
        /\ error[r] = "ledger store error"

----------------------------------------------------------------------------
(* Guard properties (SpecGuard).                                           *)

\* Request r makes its guard check in this step.
ChecksNow(r) == r \notin DOMAIN checked_at /\ r \in DOMAIN checked_at'

\* Verdicts of the gates for a checked request, from the recorded history.
RateAccepted(chk, rej, r) ==
    r \in DOMAIN chk /\ rej[r] \notin {"blocked", "rate"}

VolumeAccepted(chk, rej, r) ==
    /\ r \in DOMAIN chk
    /\ rej[r] = None
    /\ IsLedgerRequest(request[r])

RECURSIVE notional_sum(_)
notional_sum(S) ==
    IF S = {} THEN 0
    ELSE LET r == CHOOSE x \in S : TRUE IN
         get_usdc_amount(request[r]) + notional_sum(S \ {r})

\* Notional of user u accepted by the volume gate on calendar day d.
SameDayNotional(chk, rej, u, d) ==
    notional_sum({r \in DOMAIN chk :
                     /\ VolumeAccepted(chk, rej, r)
                     /\ request[r].user_id = u
                     /\ calendar_day(chk[r]) = d})

\* The running total of user u that a volume check taken in this step
\* compares: zero if the check has reset the totals, the stored one otherwise.
TotalAtCheck(u) ==
    IF last_volume_reset' # last_volume_reset THEN 0 ELSE daily_volumes[u]

\* C12: with a rate maximum N > 0, for every user and every window of 60
\* seconds ending at an instant t (the instants after t - 60 up to t, as the
\* gate prunes stamps not later than t - 60), at most N requests accepted by
\* the rate gate have their instant in the window.
C12_RateWindow ==
    \A u \in Users : \A r0 \in DOMAIN checked_at :
        settings.max_signatures_per_minute > 0 =>
            Cardinality({r \in DOMAIN checked_at :
                            /\ RateAccepted(checked_at, rejected_by, r)
                            /\ request[r].user_id = u
                            /\ checked_at[r] > checked_at[r0] - RateWindowSeconds
                            /\ checked_at[r] <= checked_at[r0]})
                <= settings.max_signatures_per_minute

\* With N = 1, a request was accepted and a later one of the same user,
\* inside the same window, was rejected by the rate gate.
C12_Witness ==
    \E r1, r2 \in DOMAIN checked_at :
        /\ settings.max_signatures_per_minute = 1
        /\ request[r1].user_id = request[r2].user_id
        /\ RateAccepted(checked_at, rejected_by, r1)
        /\ rejected_by[r2] = "rate"
        /\ checked_at[r2] > checked_at[r1]
        /\ checked_at[r2] < checked_at[r1] + RateWindowSeconds

C14_VolumeRejectionBlocks ==
    [][\A r \in Requests :
          /\ (ChecksNow(r) /\ rejected_by'[r] = "volume")
                => /\ daily_volumes'[request[r].user_id]
                          = TotalAtCheck(request[r].user_id)
                   /\ pc'[r] = "alert_volume"
          /\ (pc[r] = "alert_volume" /\ pc'[r] # "alert_volume")
                => /\ request[r].user_id \in DOMAIN blocked_users'
                   /\ blocked_users'[request[r].user_id] = checked_at[r]
                   /\ daily_volumes' = daily_volumes]_vars

\* A user was blocked by a write that came after the clock had moved on
\* from the rejecting check.
C14_Witness ==
    \E r \in DOMAIN checked_at :
        /\ rejected_by[r] = "volume"
        /\ pc[r] = "log_guard"
        /\ request[r].user_id \in DOMAIN blocked_users
        /\ blocked_users[request[r].user_id] = checked_at[r]
        /\ now > checked_at[r]

\* C15: a check of the block gate made less than one hour after the
\* blocking instant rejects the user and keeps the entry; a check made more
\* than one hour after it, however much later, admits the user and evicts
\* the entry.
C15_BlockedForOneHour ==
    [][\A r \in Requests :
          ( /\ ChecksNow(r)
            /\ IsLedgerRequest(request[r])
            /\ request[r].user_id \in DOMAIN blocked_users )
          => LET u == request[r].user_id
                 age == now - blocked_users[u]
             IN
             /\ age < BlockSeconds
                   => (rejected_by'[r] = "blocked" /\ u \in DOMAIN blocked_users')
             /\ age > BlockSeconds
                   => (rejected_by'[r] # "blocked"
                       /\ u \notin DOMAIN blocked_users')]_vars

\* C16: after every volume check the running total of each user holds no
\* more than the notional accepted for that user on the calendar day of the
\* check.
C16_TotalIsPerCalendarDay ==
    [][\A r \in Requests :
          ( /\ ChecksNow(r)
            /\ IsLedgerRequest(request[r])
            /\ settings.max_daily_volume_usdc > 0
            /\ rejected_by'[r] \notin {"blocked", "rate"} )
          => \A u \in Users :
                 daily_volumes'[u]
                     <= SameDayNotional(checked_at', rejected_by', u,
                                        calendar_day(now))]_vars

----------------------------------------------------------------------------
\* C17: a request of any kind (order, allowance, transfer) whose user is on
\* the block list, the hour of the block not yet over, leaves the guard
\* rejected and has never called the signer.
C17_BlockedNeverSigns ==
    [][\A r \in Requests :
          ( /\ pc[r] = "guard"
            /\ pc'[r] # "guard"
            /\ request[r].user_id \in DOMAIN blocked_users
            /\ now - blocked_users[request[r].user_id] < BlockSeconds )
          => (pc'[r] = "log_guard" /\ privy_calls'[r] = 0)]_vars

----------------------------------------------------------------------------
(* Validation properties (SpecValidate).  The ledger is not written in     *)
(* this specification, so the verdict of a finished validation can be      *)
(* compared with the ledger of the state.                                  *)

\* Request r has finished its activity validation with a verdict.
Validated(r) == pc[r] \in {"guard", "log_invalid"}

\* The named failure of an error message of the validation.
FailureOf(msg) ==
    CASE msg = "Target activity not found" -> "ActivityNotFound"
      [] msg = "User activity not found" -> "ActivityNotFound"
      [] msg = "Token ID mismatch" -> "ParameterMismatch"
      [] msg = "Side mismatch" -> "ParameterMismatch"
      [] msg = "No active monitoring session" -> "NoActiveRelationship"
      [] msg = "Wallet address mismatch" -> "WalletMismatch"
      [] msg = "Order already signed" -> "AlreadySigned"
      [] msg = "Commission already signed" -> "AlreadySigned"
      [] msg = "Order must be signed before commission transfer"
             -> "OrderNotYetSigned"
      [] msg = "Trade amount not available" -> "AmountUnavailable"
      [] msg = "Commission amount does not match expected 1% of trade"
             -> "CommissionMismatch"
      [] OTHER -> "Other"

\* The outcome of the finished validation of r.
Outcome(r) == IF pc[r] = "guard" THEN "Pass" ELSE FailureOf(error[r])

\* The first of the five order conditions that the ledger fails for req.
FirstOrderFailure(req) ==
    LET acts == {t \in target_activities : t.id = req.target_activity_id}
        rels == {m \in monitoring_sessions :
                    /\ m.user_id = req.user_id
                    /\ m.is_active
                    /\ \E t \in acts :
                           lower(m.target_address) = lower(t.wallet_address)}
    IN
    IF acts = {} THEN "ActivityNotFound"
    ELSE IF \E t \in acts :
                \/ t.token_id # req.token_id
                \/ t.side # (IF req.side = 0 THEN "BUY" ELSE "SELL")
    THEN "ParameterMismatch"
    ELSE IF rels = {} THEN "NoActiveRelationship"
    ELSE IF \E m \in rels :
                /\ m.internal_wallet_address # None
                /\ lower(m.internal_wallet_address) # lower(req.wallet_address)
    THEN "WalletMismatch"
    ELSE IF \E a \in user_activities :
                /\ a.user_id = req.user_id
                /\ a.target_activity_id = req.target_activity_id
                /\ a.is_order_signed
    THEN "AlreadySigned"
    ELSE "Pass"

\* C18: order validation passes exactly when the five conditions hold and
\* otherwise reports the first failing one, in the order activity exists,
\* token id and side match, active monitoring relationship, bound wallet,
\* order not yet signed.
C18_OrderValidationOrder ==
    \A r \in Requests :
        (Validated(r) /\ request[r].kind = "order")
            => Outcome(r) = FirstOrderFailure(request[r])

\* An order whose wallet differs from the bound wallet was refused for the
\* wallet although its user activity is also already signed.
C18_Witness ==
    \E r \in Requests :
        /\ request[r].kind = "order"
        /\ pc[r] = "log_invalid"
        /\ error[r] = "Wallet address mismatch"
        /\ \E a \in user_activities : a.is_order_signed

\* The exact band: 95% to 105% of 1% of the notional, both in minor units.
ExactLow(usdc_amount) == (100 - TolerancePercent) * CommissionPercent * usdc_amount
ExactHigh(usdc_amount) == (100 + TolerancePercent) * CommissionPercent * usdc_amount
InsideBand(usdc_amount, amount) ==
    /\ ExactLow(usdc_amount) < 100 * 100 * amount
    /\ 100 * 100 * amount < ExactHigh(usdc_amount)
OnBoundary(usdc_amount, amount) ==
    \/ ExactLow(usdc_amount) = 100 * 100 * amount
    \/ ExactHigh(usdc_amount) = 100 * 100 * amount

\* The first transfer condition that the ledger fails for req; an amount
\* exactly on an end of the band is named "Boundary".
FirstTransferFailure(req) ==
    LET rows == {a \in user_activities :
                    /\ a.user_id = req.user_id
                    /\ a.target_activity_id = req.target_activity_id}
    IN
    IF rows = {} THEN "ActivityNotFound"
    ELSE IF \E a \in rows : a.is_commission_signed THEN "AlreadySigned"
    ELSE IF \E a \in rows : ~a.is_order_signed THEN "OrderNotYetSigned"
    ELSE IF \E a \in rows : a.usdc_amount = NullAmount
    THEN "AmountUnavailable"
    ELSE IF \E a \in rows : OnBoundary(a.usdc_amount, req.amount)
    THEN "Boundary"
    ELSE IF \E a \in rows : ~InsideBand(a.usdc_amount, req.amount)
    THEN "CommissionMismatch"
    ELSE "Pass"

\* C19: transfer validation reports the first failing check in the order
\* record exists, commission not signed, order signed, notional known,
\* amount in the band, and passes when none fails.  (What happens exactly
\* on an end of the band is the subject of C20.)
C19_TransferValidationOrder ==
    \A r \in Requests :
        (Validated(r) /\ request[r].kind = "transfer")
            => LET first == FirstTransferFailure(request[r]) IN
               IF first = "Boundary"
               THEN Outcome(r) \in {"Pass", "CommissionMismatch"}
               ELSE Outcome(r) = first

\* A transfer for an unsigned order was refused for that reason although
\* the notional of the record is unknown as well.
C19_Witness ==
    \E r \in Requests :
        /\ request[r].kind = "transfer"
        /\ pc[r] = "log_invalid"
        /\ error[r] = "Order must be signed before commission transfer"
        /\ \E a \in user_activities : a.usdc_amount = NullAmount

\* C20: a transfer that reaches the commission check is accepted exactly
\* when 0.95 * expected <= actual <= 1.05 * expected, both ends included,
\* and is refused with CommissionMismatch otherwise.
C20_BandIsInclusive ==
    \A r \in Requests :
        ( /\ Validated(r)
          /\ request[r].kind = "transfer"
          /\ FirstTransferFailure(request[r])
                 \in {"Boundary", "CommissionMismatch", "Pass"} )
        => Outcome(r) =
              (IF FirstTransferFailure(request[r]) = "CommissionMismatch"
               THEN "CommissionMismatch" ELSE "Pass")

\* The commission band that the configuration describes, in exact
\* arithmetic: expected = notional * platform_commission_percentage / 100,
\* and the amount may differ from it by commission_tolerance percent
\* (config.py: "0.1" is +-0.1%) either way.  Both sides are scaled by
\* 100 * 1000.
ConfiguredLow(conf, usdc_amount) ==
    (1000 - conf.commission_tolerance) * conf.platform_commission_percentage * usdc_amount
ConfiguredHigh(conf, usdc_amount) ==
    (1000 + conf.commission_tolerance) * conf.platform_commission_percentage * usdc_amount
InsideConfiguredBand(conf, usdc_amount, amount) ==
    /\ ConfiguredLow(conf, usdc_amount) < 100 * 1000 * amount
    /\ 100 * 1000 * amount < ConfiguredHigh(conf, usdc_amount)
OnConfiguredBoundary(conf, usdc_amount, amount) ==
    \/ ConfiguredLow(conf, usdc_amount) = 100 * 1000 * amount
    \/ ConfiguredHigh(conf, usdc_amount) = 100 * 1000 * amount

\* The transfer of r has reached the commission check: its record exists,
\* the commission is not signed, the order is signed, the notional is known.
ReachedCommissionCheck(r) ==
    /\ Validated(r)
    /\ request[r].kind = "transfer"
    /\ FirstTransferFailure(request[r])
           \in {"Boundary", "CommissionMismatch", "Pass"}

\* C21: the commission check follows the configuration: a transfer that
\* reaches it passes when its amount lies inside the band of
\* commission_tolerance around notional * platform_commission_percentage,
\* and is refused with CommissionMismatch when it lies outside, for every
\* configured percentage.  (An amount exactly on an end of the configured
\* band may go either way here.)
C21_BandFollowsConfiguration ==
    \A r \in Requests :
        ReachedCommissionCheck(r) =>
            \A a \in get_user_activity(user_activities, request[r].user_id,
                                       request[r].target_activity_id) :
                \/ OnConfiguredBoundary(settings, a.usdc_amount,
                                        request[r].amount)
                \/ (Outcome(r) = "Pass")
                       <=> InsideConfiguredBand(settings, a.usdc_amount,
                                                request[r].amount)

----------------------------------------------------------------------------
(* Whitelist properties (SpecWhitelist).  A refused request keeps the      *)
(* form in which it was sent; an accepted one is the parsed request.       *)

Refused(r) == pc[r] = "rejected"
Parsed(r) == pc[r] \notin {"idle", "rejected"}

\* Two spellings of the same hex address.
SameAddress(a, b) == lower(a) = lower(b)

ConfiguredExchanges ==
    {polymarket_ctf_exchange, polymarket_neg_risk_ctf_exchange}
ConfiguredStableTokens == {usdc_address, usdce_address}

IsListed(v, listed) == \E c \in listed : SameAddress(v, c)
Canonical(listed) == {lower(c) : c \in listed}

\* The fields next to the whitelisted ones are acceptable to the schema.
WalletFieldValid(req) == req.wallet_address \notin NotAnAddress
OnSupportedChain(req) == req.chain_id = SupportedChainId

OrderWhitelisted(req) ==
    /\ IsListed(req.verifying_contract, ConfiguredExchanges)
    /\ req.chain_id = SupportedChainId

\* C22: an order request with an acceptable wallet field is allowed
\* exactly when its verifying_contract is, ignoring case, one of the
\* configured CTF exchange addresses and its chain_id is 137; the accepted
\* request carries the address in lower case.
C22_OrderWhitelist ==
    \A r \in Requests :
        request[r].kind = "order" =>
            /\ Refused(r) => (~OrderWhitelisted(request[r])
                              \/ ~WalletFieldValid(request[r]))
            /\ Parsed(r) =>
                   /\ OrderWhitelisted(request[r])
                   /\ request[r].verifying_contract
                          \in Canonical(ConfiguredExchanges)

\* One order was accepted on the negative-risk exchange, its address in
\* lower case, and another, naming a token contract, was refused.
C22_Witness ==
    \E r1, r2 \in Requests :
        /\ request[r1].kind = "order" /\ Parsed(r1)
        /\ request[r1].verifying_contract = "0xc5d5"
        /\ request[r2].kind = "order" /\ Refused(r2)
        /\ request[r2].verifying_contract = "0x3c49"
        /\ request[r2].chain_id = SupportedChainId

AllowanceWhitelisted(req) ==
    /\ IsListed(req.token_address, ConfiguredStableTokens)
    /\ IsListed(req.spender_address, ConfiguredExchanges)

\* C23: an allowance request (on the supported chain, with an acceptable
\* wallet field) is allowed exactly when its token_address is one of the
\* configured stable tokens and its spender_address one of the configured
\* exchanges, both ignoring case.
C23_AllowanceWhitelist ==
    \A r \in Requests :
        request[r].kind = "allowance" =>
            /\ Refused(r) => \/ ~AllowanceWhitelisted(request[r])
                             \/ ~WalletFieldValid(request[r])
                             \/ ~OnSupportedChain(request[r])
            /\ Parsed(r) =>
                   /\ AllowanceWhitelisted(request[r])
                   /\ request[r].token_address
                          \in Canonical(ConfiguredStableTokens)
                   /\ request[r].spender_address
                          \in Canonical(ConfiguredExchanges)

\* One allowance was accepted for a listed token and exchange, and another
\* for the same token was refused because its spender is a token contract.
C23_Witness ==
    \E r1, r2 \in Requests :
        /\ request[r1].kind = "allowance" /\ Parsed(r1)
        /\ request[r1].token_address = "0x3c49"
        /\ request[r1].spender_address = "0xc5d5"
        /\ request[r2].kind = "allowance" /\ Refused(r2)
        /\ request[r2].token_address = "0x3C49"
        /\ request[r2].spender_address = "0x3c49"

TransferWhitelisted(conf, req) ==
    /\ IsListed(req.token_address, ConfiguredStableTokens)
    /\ IsListed(req.recipient_address, conf.team_wallets)

\* C24: a transfer request (on the supported chain, with an acceptable
\* wallet field) is allowed exactly when its token_address is a configured
\* stable token and its recipient_address is, ignoring case, one of the
\* configured team wallets; with no team wallet configured every transfer
\* is refused.
C24_TransferWhitelist ==
    \A r \in Requests :
        request[r].kind = "transfer" =>
            /\ Refused(r) => \/ ~TransferWhitelisted(settings, request[r])
                             \/ ~WalletFieldValid(request[r])
                             \/ ~OnSupportedChain(request[r])
            /\ Parsed(r) => TransferWhitelisted(settings, request[r])
            /\ settings.team_wallets = {} => Refused(r)

\* With no team wallet configured, a transfer of a listed token to the
\* usual team wallet was refused.
C24_Witness ==
    \E r \in Requests :
        /\ settings.team_wallets = {}
        /\ request[r].kind = "transfer" /\ Refused(r)
        /\ request[r].token_address = "0x3c49"
        /\ request[r].recipient_address = "0xteam"
        /\ request[r].chain_id = SupportedChainId

----------------------------------------------------------------------------
(* Pipeline properties (Spec).                                             *)

\* The verdict that activity validation gives request r on the ledger of
\* the state.
ValidationVerdict(r) ==
    LET req == request[r] IN
    IF req.kind = "order"
    THEN validate_order_activity(target_activities, monitoring_sessions,
                                 user_activities, req.user_id,
                                 req.target_activity_id, req.wallet_address,
                                 req.token_id, req.side)
    ELSE validate_transfer_activity(user_activities, req.user_id,
                                    req.target_activity_id,
                                    req.wallet_address, req.token_address,
                                    req.amount)

\* The three gates of the guard all let request r through in the state.
GuardVerdict(r) ==
    LET req == request[r] IN
    /\ check_blocked(blocked_users, req.user_id, now).allowed
    /\ check_rate_limit(settings, user_requests, req.user_id, now).allowed
    /\ check_daily_volume(settings, daily_volumes, last_volume_reset,
                          req.user_id, get_usdc_amount(req), now).allowed

\* Steps of request r, told by what they change.
EntersGuard(r) == pc[r] # "guard" /\ pc'[r] = "guard"
EntersSign(r) == pc[r] # "sign" /\ pc'[r] = "sign"
CallsSigner(r) == privy_calls'[r] # privy_calls[r]
Commits(r) == flag_at_commit'[r] # flag_at_commit[r]

\* C27: for an order or transfer request the signer is called only after
\* activity validation has passed and then the guard has passed for that
\* request: the guard is entered only by a validation step whose verdict
\* is pass, the signer position only by a guard step whose verdict is
\* pass, the signer is called only from that position and the commit made
\* only by a request holding its signature; a request whose validation
\* failed or that the guard rejected has neither called the signer nor
\* committed a flag.
C27_SignerAfterValidationAndGuard ==
    /\ [][\A r \in Requests :
            IsLedgerRequest(request'[r]) =>
                /\ EntersGuard(r) =>
                       pc[r] = "validate" /\ ValidationVerdict(r) = ""
                /\ EntersSign(r) => pc[r] = "guard" /\ GuardVerdict(r)
                /\ CallsSigner(r) => pc[r] = "sign"
                /\ Commits(r) => pc[r] = "mark" /\ signature[r] # None]_vars
    /\ [](\A r \in Requests :
            ( /\ IsLedgerRequest(request[r])
              /\ \/ rejected_by[r] # None
                 \/ FailureOf(error[r]) # "Other"
                 \/ pc[r] \in {"validate", "guard"} )
            => (privy_calls[r] = 0 /\ flag_at_commit[r] = None
                /\ signature[r] = None))

\* One order or transfer has passed both steps and returned with its one
\* signer call and its commit; another has returned after failing
\* validation or after a guard rejection, without a signer call.
C27_Witness ==
    \E r1, r2 \in Requests :
        /\ IsLedgerRequest(request[r1]) /\ Succeeded(r1)
        /\ privy_calls[r1] = 1 /\ flag_at_commit[r1] # None
        /\ IsLedgerRequest(request[r2]) /\ Failed(r2)
        /\ (rejected_by[r2] # None \/ FailureOf(error[r2]) # "Other")
        /\ privy_calls[r2] = 0

\* Request r is an order or transfer whose activity validation has failed.
ValidationFailed(r) ==
    /\ IsLedgerRequest(request[r])
    /\ pc[r] \in {"log_invalid", "done"}
    /\ FailureOf(error[r]) # "Other"

\* Request r has not come further than a failed validation.
NoFurtherThanValidation(r) ==
    \/ pc[r] \in {"idle", "rejected", "validate"}
    \/ ValidationFailed(r)

\* C28: an order or transfer request that fails activity validation leaves
\* the guard state as it found it: each of its steps, from the validation
\* to the return, leaves rate windows, daily totals, the reset instant and
\* the block list unchanged; and while no request has come further than a
\* failed validation the guard state is that of construction.
C28_ValidationFailureLeavesGuard ==
    /\ [][\A r \in Requests :
            ( /\ IsLedgerRequest(request[r])
              /\ pc'[r] # pc[r]
              /\ \/ pc[r] = "validate" /\ pc'[r] = "log_invalid"
                 \/ pc[r] = "log_invalid" )
            => guard_vars' = guard_vars]_vars
    /\ []((\A r \in Requests : NoFurtherThanValidation(r))
            => /\ \A u \in Users : user_requests[u] = <<>>
               /\ \A u \in Users : daily_volumes[u] = 0
               /\ DOMAIN blocked_users = {}
               /\ last_volume_reset = 0)

\* A request has returned after failing validation while the rate window
\* of its user holds the entry of another request.
C28_Witness ==
    \E r \in Requests :
        /\ ValidationFailed(r)
        /\ Returned(r)
        /\ user_requests[request[r].user_id] # <<>>

\* A ledger row with the replay flag of the given kind of request blanked.
WithoutFlag(a, kind) ==
    IF kind = "order" THEN [a EXCEPT !.is_order_signed = FALSE]
    ELSE [a EXCEPT !.is_commission_signed = FALSE]

FlagOf(a, kind) ==
    IF kind = "order" THEN a.is_order_signed ELSE a.is_commission_signed

\* The step is the commit of request r after its successful signer call:
\* nothing of the ledger changes but the replay flag of its kind, which
\* becomes true on the rows that change.
IsCommitOf(r) ==
    /\ pc[r] = "mark" /\ pc'[r] = "log_success"
    /\ privy_calls[r] = 1
    /\ signature[r] \notin {None, ""}
    /\ target_activities' = target_activities
    /\ monitoring_sessions' = monitoring_sessions
    /\ {WithoutFlag(a, request[r].kind) : a \in user_activities'}
           = {WithoutFlag(a, request[r].kind) : a \in user_activities}
    /\ \A a \in user_activities' \ user_activities :
           /\ FlagOf(a, request[r].kind)
           /\ a.user_id = request[r].user_id
           /\ a.target_activity_id = request[r].target_activity_id

\* C29: order validation and transfer validation are read-only: whatever
\* the verdict, the validation step of a request leaves the three ledger
\* tables as they were; the ledger changes only in the commit step of a
\* request whose signer call succeeded, and then only in the replay flag.
C29_ValidationReadOnly ==
    [][/\ \A r \in Requests :
            (pc[r] = "validate" /\ pc'[r] # pc[r]) => db_vars' = db_vars
       /\ db_vars' # db_vars => \E r \in Requests : IsCommitOf(r)]_vars

\* One request has failed its validation and another has passed it and is
\* at the guard, and the ledger row still has both flags unset.
C29_Witness ==
    \E r1, r2 \in Requests :
        /\ ValidationFailed(r1)
        /\ IsLedgerRequest(request[r2]) /\ pc[r2] = "guard"
        /\ user_activities = {UserActivity(FALSE, FALSE)}

----------------------------------------------------------------------------
(* Rate window properties (SpecGuard).                                     *)

\* The entries of a rate window that are less than one window old at t.
StillCounted(stamps, t) ==
    SelectSeq(stamps, LAMBDA ts : ts > t - RateWindowSeconds)

\* Request r makes its guard check in this step and comes to the rate gate.
ReachesRateGate(r) ==
    /\ ChecksNow(r)
    /\ settings.max_signatures_per_minute > 0
    /\ rejected_by'[r] # "blocked"

\* C30: a request that the rate gate rejects is not added to the rate
\* window of its user and an accepted one is appended with its instant;
\* so a request that comes to the rate gate when the oldest entry of the
\* window is 60 seconds old or more, or when every request of the user
\* that the gate accepted lies 60 seconds or more back, is accepted by the
\* rate gate, however many requests were rejected in between.
C30_RejectedNotCounted ==
    [][\A r \in Requests :
          ReachesRateGate(r) =>
              LET u == request[r].user_id
                  window == user_requests[u]
                  counted == StillCounted(window, now)
              IN
              /\ rejected_by'[r] = "rate" => user_requests'[u] = counted
              /\ rejected_by'[r] # "rate"
                     => user_requests'[u] = Append(counted, now)
              /\ (window # <<>> /\ now - Head(window) >= RateWindowSeconds)
                     => rejected_by'[r] # "rate"
              /\ (\A q \in DOMAIN checked_at :
                      ( /\ request[q].user_id = u
                        /\ RateAccepted(checked_at, rejected_by, q) )
                      => now - checked_at[q] >= RateWindowSeconds)
                     => rejected_by'[r] # "rate"]_vars

\* With N = 1, a request was accepted and appended with its instant, and
\* the next request of the same user, exactly 60 seconds later, was
\* accepted by the rate gate and is now the only entry of the window.
C30_Witness ==
    \E r1, r2 \in DOMAIN checked_at :
        /\ settings.max_signatures_per_minute = 1
        /\ request[r1].user_id = request[r2].user_id
        /\ RateAccepted(checked_at, rejected_by, r1)
        /\ RateAccepted(checked_at, rejected_by, r2)
        /\ checked_at[r2] = checked_at[r1] + RateWindowSeconds
        /\ user_requests[request[r2].user_id] = <<checked_at[r2]>>

----------------------------------------------------------------------------
(* Properties of the guard under a stream of calls (SpecStream).           *)

\* The request of slot r makes its guard call in this step.
GuardStep(r) == pc[r] = "guard" /\ pc'[r] # "guard"

\* The block list after the step is the one before it, except that the
\* entry of user u may have been removed.
BlockListOnlyEvicts(u) ==
    /\ DOMAIN blocked_users' \subseteq DOMAIN blocked_users
    /\ DOMAIN blocked_users \ DOMAIN blocked_users' \subseteq {u}
    /\ \A v \in DOMAIN blocked_users' : blocked_users'[v] = blocked_users[v]

Unlimited ==
    /\ settings.max_signatures_per_minute = 0
    /\ settings.max_daily_volume_usdc = 0

\* C32: with the rate maximum and the daily volume maximum both 0, the
\* guard rejects no request, records no request instant, accumulates no
\* volume and places no user on the block list.
C32_ZeroMeansUnlimited ==
    Unlimited =>
        /\ \A r \in Requests :
               rejected_by[r] = None /\ pc[r] \in {"guard", "sign"}
        /\ \A u \in Users : user_requests[u] = <<>> /\ daily_volumes[u] = 0
        /\ DOMAIN blocked_users = {}

\* With both maxima 0, after the first instant, every slot holds a request
\* that the guard has passed, among them an order of notional 100.
C32_Witness ==
    /\ Unlimited
    /\ now > ConstructedAt
    /\ \A r \in Requests : pc[r] = "sign"
    /\ \E r \in Requests :
           IsLedgerRequest(request[r]) /\ get_usdc_amount(request[r]) = 100

----------------------------------------------------------------------------
(* Properties of the running total and of the audit trail (Spec).          *)

\* The ledger requests of user u that were returned as signed.
SignedRequests(u) ==
    {r \in Requests : /\ Succeeded(r)
                       /\ IsLedgerRequest(request[r])
                       /\ request[r].user_id = u}

\* No request is between its arrival and its answer.
Quiescent == \A r \in Requests : ~InFlight(r)

\* C33: with a daily maximum configured, once every request has been
\* answered, the running total of a user equals the sum of the notional of
\* that user's requests that were signed successfully in the day; a
\* request that passed the guard and whose signer call failed is not in it.
C33_TotalIsSignedNotional ==
    (settings.max_daily_volume_usdc > 0 /\ Quiescent) =>
        \A u \in Users : daily_volumes[u] = notional_sum(SignedRequests(u))

\* C38: whenever the signer returned a signature for a request, the audit
\* record written for that attempt contains that signature, also when the
\* request is returned as a failure.
C38_SignatureInAuditTrail ==
    \A r \in Requests :
        (Returned(r) /\ signature[r] # None) =>
            /\ result[r].audit_id \in 1..Len(audit_log)
            /\ audit_log[result[r].audit_id].signature = signature[r]

\* C35: the audit store is append-only: in every step the rows already
\* written stay where they are with every field as written, and the table
\* only grows.
C35_AuditAppendOnly ==
    [][/\ Len(audit_log') >= Len(audit_log)
       /\ \A i \in 1..Len(audit_log) : audit_log'[i] = audit_log[i]]_vars

\* Two attempts have been recorded, a failed one and after it a signed one.
C35_Witness ==
    /\ Len(audit_log) >= 2
    /\ ~audit_log[1].success
    /\ audit_log[2].success /\ audit_log[2].signature # None

\* A user-activity record without its two replay flags.
Unflagged(a) ==
    [a EXCEPT !.is_order_signed = FALSE, !.is_commission_signed = FALSE]

\* C36: no step creates, changes or deletes a target activity or a
\* monitoring relationship, none creates or deletes a user-activity
\* record, and the only fields of a user-activity record a step changes
\* are the two replay flags: the trade notional and the other fields stay.
C36_OnlyReplayFlagsChange ==
    [][/\ target_activities' = target_activities
       /\ monitoring_sessions' = monitoring_sessions
       /\ Cardinality(user_activities') = Cardinality(user_activities)
       /\ {Unflagged(a) : a \in user_activities'}
              = {Unflagged(a) : a \in user_activities}]_vars

\* An order was signed and committed on a record whose flag was unset, and
\* the record carries its trade notional as before.
C36_Witness ==
    \E r \in Requests :
        /\ Succeeded(r) /\ request[r].kind = "order"
        /\ flag_at_commit[r] = "false"
        /\ user_activities = {UserActivity(TRUE, FALSE)}

\* C37: in every reachable state, a user-activity record whose commission
\* flag is set has its order flag set.
C37_CommissionImpliesOrder ==
    \A a \in user_activities : a.is_commission_signed => a.is_order_signed

\* A transfer was signed and committed, and the record has both flags set.
C37_Witness ==
    \E r \in Requests :
        /\ Succeeded(r) /\ request[r].kind = "transfer"
        /\ flag_at_commit[r] = "false"
        /\ user_activities = {UserActivity(TRUE, TRUE)}

----------------------------------------------------------------------------
(* Rate window and volume gate (SpecGuard).                                *)

\* C39: with a rate maximum configured, a request that passes the block
\* gate and the rate gate and is then rejected by the volume gate has been
\* appended to the rate window of its user with its instant: it takes one
\* slot of the per-minute quota although the guard rejected it.
C39_VolumeRejectionCounted ==
    [][\A r \in Requests :
          ( /\ GuardStep(r)
            /\ rejected_by'[r] = "volume"
            /\ settings.max_signatures_per_minute > 0 )
          => LET u == request[r].user_id IN
             user_requests'[u] =
                 Append(StillCounted(user_requests[u], now), now)]_vars

\* With N = 1, an order was rejected by the volume gate and is the only
\* entry of the rate window, and the next request of the same user, less
\* than a minute later, was rejected by the rate gate.
C39_Witness ==
    \E r1, r2 \in DOMAIN checked_at :
        /\ settings.max_signatures_per_minute = 1
        /\ request[r1].user_id = request[r2].user_id
        /\ rejected_by[r1] = "volume"
        /\ rejected_by[r2] = "rate"
        /\ checked_at[r1] <= checked_at[r2]
        /\ checked_at[r2] - checked_at[r1] < RateWindowSeconds
        /\ user_requests[request[r1].user_id] = <<checked_at[r1]>>

----------------------------------------------------------------------------
(* Alerts of the guard (SpecStream).                                       *)

\* The request of slot r comes to the rate gate in this step and finds the
\* quota of its user used up.
RateBreach(r) ==
    /\ GuardStep(r)
    /\ settings.max_signatures_per_minute > 0
    /\ rejected_by'[r] # "blocked"
    /\ Len(StillCounted(user_requests[request[r].user_id], now))
           >= settings.max_signatures_per_minute

\* The alert of the volume breach of slot r comes back in this step.
VolumeAlertReturns(r) == pc[r] = "alert_volume" /\ pc'[r] # pc[r]

\* C34: whatever becomes of the alert (Telegram not configured, a 200, an
\* error status, a connection error, a timeout), a rate breach is rejected
\* by the rate gate with the window pruned and nothing else changed, a
\* volume breach is rejected by the volume gate and its user is on the
\* block list with the instant of the check, and no guard call ends in the
\* exception handler.
C34_AlertFailureHarmless ==
    [][\A r \in Requests :
          LET u == request[r].user_id IN
          /\ RateBreach(r) =>
                 /\ rejected_by'[r] = "rate" /\ pc'[r] = "log_guard"
                 /\ user_requests'[u] = StillCounted(user_requests[u], now)
          /\ VolumeAlertReturns(r) =>
                 /\ rejected_by'[r] = "volume" /\ pc'[r] = "log_guard"
                 /\ u \in DOMAIN blocked_users'
                 /\ blocked_users'[u] = check_now[r]
          /\ (GuardStep(r) \/ VolumeAlertReturns(r)) =>
                 pc'[r] # "except" /\ error'[r] = None]_vars

\* Telegram is configured and a user has been rejected by the volume gate
\* and is on the block list with the instant of that check, while another
\* request of the user was rejected by the rate gate.
C34_Witness ==
    \E r1, r2 \in Requests :
        /\ settings.telegram_bot_token # "" /\ settings.telegram_chat_id # ""
        /\ request[r1].user_id = request[r2].user_id
        /\ rejected_by[r1] = "volume" /\ pc[r1] = "log_guard"
        /\ request[r1].user_id \in DOMAIN blocked_users
        /\ blocked_users[request[r1].user_id] = check_now[r1]
        /\ rejected_by[r2] = "rate" /\ pc[r2] = "log_guard"

----------------------------------------------------------------------------
(* Transfer validation across requests (SpecTransferPair).                 *)

\* The validation of the transfer of slot r has given its verdict.
TransferValidated(r) == request[r].kind = "transfer" /\ Validated(r)

\* C40: two validated transfers for the same user, target activity and
\* amount receive the same verdict whatever their wallet address and token
\* address, and the verdict of a transfer is never the failure of a
\* monitoring-relationship check or of a bound-wallet check.
C40_TransferVerdictIgnoresWallet ==
    /\ \A r1, r2 \in Requests :
           ( /\ TransferValidated(r1) /\ TransferValidated(r2)
             /\ request[r1].user_id = request[r2].user_id
             /\ request[r1].target_activity_id = request[r2].target_activity_id
             /\ request[r1].amount = request[r2].amount )
           => Outcome(r1) = Outcome(r2)
    /\ \A r \in Requests :
           TransferValidated(r)
           => Outcome(r) \notin {"NoActiveRelationship", "WalletMismatch"}

\* Two transfers of the same amount with different wallet addresses and
\* different token addresses have both passed, while the user's monitoring
\* session is bound to the wallet of only one of them.
C40_Witness ==
    \E r1, r2 \in Requests :
        /\ TransferValidated(r1) /\ TransferValidated(r2)
        /\ request[r1].amount = request[r2].amount
        /\ request[r1].wallet_address # request[r2].wallet_address
        /\ request[r1].token_address # request[r2].token_address
        /\ Outcome(r1) = "Pass" /\ Outcome(r2) = "Pass"
        /\ \E ms \in monitoring_sessions :
               /\ ms.internal_wallet_address # None
               /\ lower(ms.internal_wallet_address) = request[r1].wallet_address

====
